---- MODULE Spec2Model ----
(***************************************************************************)
(* Model of suflaj/amend: the length-normalization engine of               *)
(* src/amend/utilities/normalization.py                                    *)
(*   find_least_common_multiplier                                          *)
(*   iterate_over_lengths_satisfying_constraints   (a Python generator)    *)
(*   determine_length_normalization_strategy       (its consumer)          *)
(*   _normalize_length_of_data_sequence / _sequence_container              *)
(* and the amend_* functions that use it:                                  *)
(*   amend_integer                  (built_in/numbers/integers.py)         *)
(*   amend_immutable_binary, amend_mutable_binary, amend_text              *)
(*                                  (built_in/sequences/data_sequences.py) *)
(*   amend_immutable_sequence, amend_mutable_sequence                      *)
(*                             (built_in/sequences/sequence_containers.py) *)
(*   amend_date, amend_date_and_time, amend_time, amend_temporal_offset    *)
(*                                                (standard/temporals.py)  *)
(*   amend_directory, amend_file                      (standard/paths.py)  *)
(*                                                                         *)
(* Optional integers are encoded as sequences: None is <<>> and the        *)
(* integer n is <<n>>.  Optional sides are strings, the unset side being   *)
(* the string "None".                                                      *)
(***************************************************************************)
EXTENDS Integers, Sequences, FiniteSets, TLC

VARIABLES
    \* ---- arguments of determine_length_normalization_strategy /
    \*      iterate_over_lengths_satisfying_constraints
    length,
    minimum_length,
    maximum_length,
    length_is_multiple_of,
    truncation_side,
    padding_side,
    \* ---- frame of the generator iterate_over_lengths_satisfying_constraints
    gpc,                        \* position of the generator
    differential,
    length_when_truncated,
    length_when_padded,
    new_length_when_truncated,
    new_length_when_padded,
    proposal,                   \* the value yielded and not yet taken, or None
    yielded,                    \* every value yielded so far, in order
    \* ---- frame of determine_length_normalization_strategy
    pc,
    result,
    \* ---- frame of _normalize_length_of_data_sequence and
    \*      _normalize_length_of_sequence_container
    apc,
    sequence_type,              \* bytes, bytearray, str, tuple or list
    given_sequence,             \* the sequence as it was passed
    data_sequence,              \* the sequence as the call rebinds it
    left_change,
    right_change,
    padding_value,
    \* ---- frame of a call of find_least_common_multiplier on its own
    mpc,
    multiples,
    least_common_multiplier,
    \* ---- arguments of an amend_* call (built_in/numbers/integers.py,
    \*      built_in/sequences/data_sequences.py, sequence_containers.py)
    amend_function,             \* which amend_* function is called
    entity,                     \* the value as it was passed
    type_mismatch_action,
    value_on_cast_error,
    length_violation_action,
    minimum_value,
    maximum_value,
    value_violation_action,
    not_existing_action,        \* of amend_directory and amend_file
    category_mismatch_action,
    \* ---- frame of the amend_* call
    ampc,
    amended,                    \* the value as the call rebinds it
    warnings,                   \* the warnings issued so far, in order
    exception,                  \* the exception that left the call, or "None"
    \* ---- what outlives the call
    calls,                      \* how many times the function has been called
    filesystem,                 \* the files and directories that exist
    given_filesystem            \* ... and those that did when the call was made

vars == << length, minimum_length, maximum_length, length_is_multiple_of,
           truncation_side, padding_side, gpc, differential,
           length_when_truncated, length_when_padded,
           new_length_when_truncated, new_length_when_padded,
           proposal, yielded, pc, result,
           apc, sequence_type, given_sequence, data_sequence, left_change,
           right_change, padding_value,
           mpc, multiples, least_common_multiplier,
           amend_function, entity, type_mismatch_action, value_on_cast_error,
           length_violation_action, minimum_value, maximum_value,
           value_violation_action, not_existing_action,
           category_mismatch_action, ampc, amended, warnings, exception,
           calls, filesystem, given_filesystem >>

arguments == << length, minimum_length, maximum_length, length_is_multiple_of,
                truncation_side, padding_side >>

generator_frame == << gpc, differential, length_when_truncated,
                      length_when_padded, new_length_when_truncated,
                      new_length_when_padded, proposal, yielded >>

strategy_frame == << arguments, generator_frame, pc, result >>

adjuster_frame == << apc, sequence_type, given_sequence, data_sequence,
                     left_change, right_change, padding_value >>

multiplier_frame == << mpc, multiples, least_common_multiplier >>

amend_arguments == << amend_function, entity, type_mismatch_action,
                      value_on_cast_error, length_violation_action,
                      minimum_value, maximum_value, value_violation_action,
                      not_existing_action, category_mismatch_action >>

environment == << calls, filesystem, given_filesystem >>

amend_frame == << amend_arguments, ampc, amended, warnings, exception,
                  environment >>

-----------------------------------------------------------------------------
(* Bounds of the model *)

MaxLen == 3          \* lengths and length bounds range over 0..MaxLen
MaxMultiple == 3     \* elements of length_is_multiple_of range over -1..MaxMultiple
MaxMultiples == 2    \* length_is_multiple_of holds at most this many elements
MaxSlack == 3        \* how far beyond every bound an unbounded walk is followed
MaxSeqLen == 3       \* the sequences handed to the adjuster hold at most this many elements
MaxChange == 3       \* left_change and right_change range over -MaxChange..MaxChange
MaxPadLen == 2       \* a padding pattern holds at most this many elements
MaxFactor == 6       \* find_least_common_multiplier is called on elements -1..MaxFactor
MaxFactors == 3      \* ... and on at most this many of them
MaxAmendLen == 2     \* the sequences handed to amend_* hold at most this many elements
MaxValue == 2        \* amend_integer is called on numbers and bounds -MaxValue..MaxValue
MaxDepth == 2        \* the paths handed to amend_directory and amend_file hold at most this many names

-----------------------------------------------------------------------------
(* Values *)

None == << >>
Some(n) == << n >>

Max2(a, b) == IF a >= b THEN a ELSE b
Abs(n) == IF n < 0 THEN 0 - n ELSE n

RECURSIVE SeqsUpTo(_, _)
SeqsUpTo(S, n) ==
    IF n = 0 THEN { << >> }
    ELSE LET shorter == SeqsUpTo(S, n - 1)
         IN  shorter \cup { Append(s, x) : s \in shorter, x \in S }

Sides == { "left", "right", "both-but-prioritize-left", "both-but-prioritize-right" }
NoSide == "None"
InvalidSide == "middle"

Lengths == 0 .. MaxLen
OptionalLengths == { None } \cup { Some(n) : n \in Lengths }
MultipleValues == (0 - 1) .. MaxMultiple
Multiples == { None } \cup { Some(m) : m \in SeqsUpTo(MultipleValues, MaxMultiples) }

\* A Python value: its type, its elements when it is a sequence, its number
\* when it is an int (the numerator over 2 when it is a float).
Value(type, elements, number) ==
    [ type |-> type, elements |-> elements, number |-> number ]
NoValue == Value("NoneType", << >>, 0)

NoAction == "None"
InvalidAction == "ignore"
NoException == "None"

PendingResult == [ kind |-> "pending", left |-> 0, right |-> 0 ]
NoneResult == [ kind |-> "None", left |-> 0, right |-> 0 ]
ValueErrorResult == [ kind |-> "ValueError", left |-> 0, right |-> 0 ]
PairResult(l, r) == [ kind |-> "pair", left |-> l, right |-> r ]

-----------------------------------------------------------------------------
(* find_least_common_multiplier *)

RECURSIVE Gcd(_, _)
Gcd(a, b) == IF b = 0 THEN a ELSE Gcd(b, a % b)

\* a fold step that forgets to divide by the gcd
LcmStep_Product(lcm, element) == lcm * element

\* one step of the fold: (lcm * element) // gcd(lcm, element)
LcmStep(lcm, element) == (lcm * element) \div Gcd(lcm, element)

\* lines 91-96: the fold over multiples[1:], left to right
RECURSIVE LcmFold(_, _)
LcmFold(lcm, rest) ==
    IF rest = << >> THEN lcm
    ELSE LcmFold(LcmStep(lcm, Head(rest)), Tail(rest))

\* a check that lets the element 0 through
MultipleIsRejected_OnlyNegative(multiple) == multiple < 0

\* amend_integer(multiple, minimum_value=1, value_violation_action="error")
\* raises ValueError for an element smaller than 1
MultipleIsRejected(multiple) == multiple < 1

\* The outcome of find_least_common_multiplier(given): Some(lcm), or None when
\* it raises ValueError.  `given` is None or Some(tuple).
find_least_common_multiplier(given) ==
    IF given = None THEN Some(1)
    ELSE LET ms == given[1]
         IN  IF \E i \in 1 .. Len(ms) : MultipleIsRejected(ms[i]) THEN None
             ELSE IF Len(ms) = 0 THEN Some(1)
             ELSE Some(LcmFold(ms[1], Tail(ms)))

-----------------------------------------------------------------------------
(* iterate_over_lengths_satisfying_constraints *)

\* amend_integer(minimum_length, value_on_cast_error=0, minimum_value=0, "clamp")
AmendMinimumLength(m) == IF m = None THEN 0 ELSE Max2(m[1], 0)

\* amend_integer(maximum_length, minimum_value=0, "clamp") unless it is None
AmendMaximumLength(m) == IF m = None THEN None ELSE Some(Max2(m[1], 0))

MinimumLength == AmendMinimumLength(minimum_length)
MaximumLength == AmendMaximumLength(maximum_length)

\* a truncation candidate that starts strictly below length, as the padded one
\* starts strictly above it
LengthWhenTruncated_Strict(len, d) ==
    IF len % d = 0 THEN len - d ELSE len - (len % d)

\* a padding candidate that forgets the remainder
LengthWhenPadded_NoRemainder(len, d) == len + d

LengthWhenTruncated(len, d) == len - (len % d)
LengthWhenPadded(len, d) == len + d - (len % d)

\* a maximum check that is off by one
AtMostMaximum_OffByOne(candidate) ==
    MaximumLength = None \/ candidate <= MaximumLength[1] + 1

AtLeastMinimum(candidate) == candidate >= MinimumLength

AtMostMaximum(candidate) == MaximumLength = None \/ candidate <= MaximumLength[1]

\* a loop condition that forgets the unbounded case
WhileCondition_Bounded ==
    \/ length_when_truncated >= MinimumLength
    \/ MaximumLength # None /\ length_when_padded <= MaximumLength[1]

WhileCondition ==
    \/ length_when_truncated >= MinimumLength
    \/ MaximumLength = None
    \/ length_when_padded <= MaximumLength[1]

\* The walk of an unbounded generator is followed up to this candidate length.
MaxCandidate == 2 * MaxLen + MaxSlack

\* The generator runs only while its consumer waits in next().
ConsumerWaits == pc \in { "loop", "drain" } /\ proposal = None

Yield(delta) ==
    /\ proposal' = Some(delta)
    /\ yielded' = Append(yielded, delta)

NoYield == UNCHANGED << proposal, yielded >>

\* lines 149-191: the arguments are amended, the differential computed
GenStart ==
    /\ UNCHANGED << adjuster_frame, multiplier_frame, amend_frame >>
    /\ ConsumerWaits
    /\ gpc = "start"
    /\ LET d == find_least_common_multiplier(length_is_multiple_of)
       IN  IF d = None
           THEN /\ gpc' = "raised"
                /\ UNCHANGED << differential, length_when_truncated,
                                length_when_padded, new_length_when_truncated,
                                new_length_when_padded >>
           ELSE /\ gpc' = "while"
                /\ differential' = d[1]
                /\ length_when_truncated' = LengthWhenTruncated(length, d[1])
                /\ length_when_padded' = LengthWhenPadded(length, d[1])
                /\ new_length_when_truncated' = LengthWhenTruncated(length, d[1])
                /\ new_length_when_padded' = LengthWhenPadded(length, d[1])
    /\ NoYield
    /\ UNCHANGED << arguments, pc, result >>

\* lines 193-197: the loop condition
GenWhile ==
    /\ UNCHANGED << adjuster_frame, multiplier_frame, amend_frame >>
    /\ ConsumerWaits
    /\ gpc = "while"
    /\ gpc' = IF WhileCondition THEN "truncated" ELSE "exhausted"
    /\ NoYield
    /\ UNCHANGED << arguments, differential, length_when_truncated,
                    length_when_padded, new_length_when_truncated,
                    new_length_when_padded, pc, result >>

\* lines 198-201: the truncation candidate
GenTruncated ==
    /\ UNCHANGED << adjuster_frame, multiplier_frame, amend_frame >>
    /\ ConsumerWaits
    /\ gpc = "truncated"
    /\ gpc' = "padded"
    /\ IF AtLeastMinimum(length_when_truncated)
       THEN /\ IF AtMostMaximum(length_when_truncated)
               THEN Yield(length_when_truncated - length)
               ELSE NoYield
            /\ new_length_when_truncated' = length_when_truncated - differential
       ELSE /\ NoYield
            /\ UNCHANGED new_length_when_truncated
    /\ UNCHANGED << arguments, differential, length_when_truncated,
                    length_when_padded, new_length_when_padded, pc, result >>

\* lines 203-206: the padding candidate
GenPadded ==
    /\ UNCHANGED << adjuster_frame, multiplier_frame, amend_frame >>
    /\ ConsumerWaits
    /\ gpc = "padded"
    /\ gpc' = "advance"
    /\ IF AtMostMaximum(length_when_padded)
       THEN /\ IF AtLeastMinimum(length_when_padded)
               THEN Yield(length_when_padded - length)
               ELSE NoYield
            /\ new_length_when_padded' = length_when_padded + differential
       ELSE /\ NoYield
            /\ UNCHANGED new_length_when_padded
    /\ UNCHANGED << arguments, differential, length_when_truncated,
                    length_when_padded, new_length_when_truncated, pc, result >>

\* lines 208-215: the stall check and the step outward
GenAdvance ==
    /\ UNCHANGED << adjuster_frame, multiplier_frame, amend_frame >>
    /\ ConsumerWaits
    /\ gpc = "advance"
    /\ new_length_when_padded <= MaxCandidate
    /\ IF /\ new_length_when_truncated = length_when_truncated
          /\ new_length_when_padded = length_when_padded
       THEN /\ gpc' = "exhausted"
            /\ UNCHANGED << length_when_truncated, length_when_padded >>
       ELSE /\ gpc' = "while"
            /\ length_when_truncated' = new_length_when_truncated
            /\ length_when_padded' = new_length_when_padded
    /\ NoYield
    /\ UNCHANGED << arguments, differential, new_length_when_truncated,
                    new_length_when_padded, pc, result >>

-----------------------------------------------------------------------------
(* determine_length_normalization_strategy *)

SideIsInvalid(side) == side # NoSide /\ side \notin Sides

\* lines 328-330
SideToLookAt(proposed_length_change) ==
    IF proposed_length_change < 0 THEN truncation_side ELSE padding_side

\* a split that gives the larger half to the same end whatever the side says
SplitChange_IgnoresPriority(side_to_look_at, proposed_length_change) ==
    IF side_to_look_at = "left" THEN PairResult(proposed_length_change, 0)
    ELSE IF side_to_look_at = "right" THEN PairResult(0, proposed_length_change)
    ELSE PairResult(proposed_length_change \div 2, (proposed_length_change + 1) \div 2)

\* lines 334-358: how an accepted change is split between the two ends
SplitChange(side_to_look_at, proposed_length_change) ==
    IF side_to_look_at = "left" THEN PairResult(proposed_length_change, 0)
    ELSE IF side_to_look_at = "right" THEN PairResult(0, proposed_length_change)
    ELSE IF \/ side_to_look_at = "both-but-prioritize-left" /\ proposed_length_change > 0
            \/ side_to_look_at = "both-but-prioritize-right" /\ proposed_length_change < 0
    THEN PairResult((proposed_length_change + 1) \div 2, proposed_length_change \div 2)
    ELSE PairResult(proposed_length_change \div 2, (proposed_length_change + 1) \div 2)

\* lines 291-311: the sides are validated, then the loop is entered
Call ==
    /\ UNCHANGED << adjuster_frame, multiplier_frame, amend_frame >>
    /\ pc = "call"
    /\ IF SideIsInvalid(truncation_side) \/ SideIsInvalid(padding_side)
       THEN pc' = "done" /\ result' = ValueErrorResult
       ELSE pc' = "loop" /\ UNCHANGED result
    /\ UNCHANGED << arguments, generator_frame >>

\* lines 320-358: one pass of the loop body over the proposal taken
TakeProposal ==
    /\ UNCHANGED << adjuster_frame, multiplier_frame, amend_frame >>
    /\ pc = "loop"
    /\ proposal # None
    /\ proposal' = None
    /\ LET proposed_length_change == proposal[1]
       IN  IF proposed_length_change = 0
           THEN pc' = "done" /\ result' = PairResult(0, 0)
           ELSE IF truncation_side = NoSide /\ padding_side = NoSide
           THEN pc' = "done" /\ result' = NoneResult
           ELSE IF SideToLookAt(proposed_length_change) = NoSide
           THEN UNCHANGED << pc, result >>
           ELSE /\ pc' = "done"
                /\ result' = SplitChange(SideToLookAt(proposed_length_change),
                                         proposed_length_change)
    /\ UNCHANGED << arguments, gpc, differential, length_when_truncated,
                    length_when_padded, new_length_when_truncated,
                    new_length_when_padded, yielded >>

\* line 360: the generator is exhausted
Exhausted ==
    /\ UNCHANGED << adjuster_frame, multiplier_frame, amend_frame >>
    /\ pc = "loop"
    /\ proposal = None
    /\ gpc = "exhausted"
    /\ pc' = "done"
    /\ result' = NoneResult
    /\ UNCHANGED << arguments, generator_frame >>

\* the ValueError of find_least_common_multiplier leaves through the loop
Raised ==
    /\ UNCHANGED << adjuster_frame, multiplier_frame, amend_frame >>
    /\ pc = "loop"
    /\ proposal = None
    /\ gpc = "raised"
    /\ pc' = "done"
    /\ result' = ValueErrorResult
    /\ UNCHANGED << arguments, generator_frame >>

-----------------------------------------------------------------------------
(* Specification of one call of determine_length_normalization_strategy *)

IdleAdjuster ==
    /\ apc = "idle"
    /\ sequence_type = "bytes"
    /\ given_sequence = << >>
    /\ data_sequence = << >>
    /\ left_change = 0
    /\ right_change = 0
    /\ padding_value = None

IdleMultiplier ==
    /\ mpc = "idle"
    /\ multiples = None
    /\ least_common_multiplier = None

IdleAmend ==
    /\ ampc = "idle"
    /\ amend_function = "None"
    /\ entity = NoValue
    /\ type_mismatch_action = NoAction
    /\ value_on_cast_error = None
    /\ length_violation_action = NoAction
    /\ minimum_value = None
    /\ maximum_value = None
    /\ value_violation_action = NoAction
    /\ not_existing_action = NoAction
    /\ category_mismatch_action = NoAction
    /\ amended = NoValue
    /\ warnings = << >>
    /\ exception = NoException
    /\ calls = 0
    /\ filesystem = { }
    /\ given_filesystem = { }

InitGenerator ==
    /\ gpc = "start"
    /\ differential = 1
    /\ length_when_truncated = 0
    /\ length_when_padded = 0
    /\ new_length_when_truncated = 0
    /\ new_length_when_padded = 0
    /\ proposal = None
    /\ yielded = << >>

Init ==
    /\ length \in Lengths
    /\ minimum_length \in OptionalLengths
    /\ maximum_length \in OptionalLengths
    /\ length_is_multiple_of \in Multiples
    /\ truncation_side \in Sides \cup { NoSide, InvalidSide }
    /\ padding_side \in Sides \cup { NoSide, InvalidSide }
    /\ InitGenerator
    /\ pc = "call"
    /\ result = PendingResult
    /\ IdleAdjuster
    /\ IdleMultiplier
    /\ IdleAmend

Next ==
    \/ Call
    \/ GenStart
    \/ GenWhile
    \/ GenTruncated
    \/ GenPadded
    \/ GenAdvance
    \/ TakeProposal
    \/ Exhausted
    \/ Raised

Spec == Init /\ [][Next]_vars

-----------------------------------------------------------------------------
(* Specification of the generator alone, iterated to its end by a caller   *)
(* (for proposal in iterate_over_lengths_satisfying_constraints(...))      *)

\* the caller takes the value yielded and asks for the next one
NextProposal ==
    /\ UNCHANGED << adjuster_frame, multiplier_frame, amend_frame >>
    /\ pc = "drain"
    /\ proposal # None
    /\ proposal' = None
    /\ UNCHANGED << arguments, gpc, differential, length_when_truncated,
                    length_when_padded, new_length_when_truncated,
                    new_length_when_padded, yielded, pc, result >>

\* line 216: the generator returns, or its ValueError reaches the caller
StopIteration ==
    /\ UNCHANGED << adjuster_frame, multiplier_frame, amend_frame >>
    /\ pc = "drain"
    /\ proposal = None
    /\ gpc \in { "exhausted", "raised" }
    /\ pc' = "done"
    /\ result' = IF gpc = "raised" THEN ValueErrorResult ELSE NoneResult
    /\ UNCHANGED << arguments, generator_frame >>

InitEnum ==
    /\ length \in Lengths
    /\ minimum_length \in OptionalLengths
    /\ maximum_length \in OptionalLengths
    /\ length_is_multiple_of \in Multiples
    /\ truncation_side = NoSide
    /\ padding_side = NoSide
    /\ InitGenerator
    /\ pc = "drain"
    /\ result = PendingResult
    /\ IdleAdjuster
    /\ IdleMultiplier
    /\ IdleAmend

NextEnum ==
    \/ GenStart
    \/ GenWhile
    \/ GenTruncated
    \/ GenPadded
    \/ GenAdvance
    \/ NextProposal
    \/ StopIteration

SpecEnum == InitEnum /\ [][NextEnum]_vars

\* the caller's for loop keeps asking and the generator keeps running: a step
\* that can be taken is taken
SpecEnumFair == SpecEnum /\ WF_vars(NextEnum)

-----------------------------------------------------------------------------
(* _normalize_length_of_data_sequence, _normalize_length_of_sequence_container *)
(* behind normalize_length_of_immutable_binary, _mutable_binary, _text,        *)
(* _immutable_sequence and _mutable_sequence                                   *)

SequenceTypes == { "bytes", "bytearray", "str", "tuple", "list" }

\* a default that pads every type with '_'
DefaultPaddingValue_Underscore(type) == << "_" >>

\* lines 475-482 and 834-835: the pattern used when padding_value is None
DefaultPaddingValue(type) ==
    IF type \in { "bytes", "bytearray" } THEN << "NUL" >>
    ELSE IF type = "str" THEN << "_" >>
    ELSE << "None" >>

Min2(a, b) == IF a <= b THEN a ELSE b

\* s[k:] for k >= 0
SliceFrom(s, k) == SubSeq(s, Min2(k, Len(s)) + 1, Len(s))

\* s[:k], where a negative k counts from the end
SliceTo(s, k) ==
    IF k >= 0 THEN SubSeq(s, 1, Min2(k, Len(s)))
    ELSE SubSeq(s, 1, Max2(Len(s) + k, 0))

\* pattern * count
RECURSIVE Repeat(_, _)
Repeat(pattern, count) ==
    IF count <= 0 THEN << >> ELSE pattern \o Repeat(pattern, count - 1)

\* a block that is tiled but never trimmed
PaddingBlock_Untrimmed(pattern, change) ==
    Repeat(pattern, (change + Len(pattern) - 1) \div Len(pattern))

\* lines 511-513: the pattern tiled to cover `change` elements, then trimmed
PaddingBlock(pattern, change) ==
    SliceTo(Repeat(pattern, (change + Len(pattern) - 1) \div Len(pattern)), change)

\* a left adjustment that pads at the wrong end
LeftAdjusted_Appends(s, change, pattern) ==
    IF change < 0 THEN SliceFrom(s, Abs(change))
    ELSE IF change > 0 THEN s \o PaddingBlock(pattern, change)
    ELSE s

\* lines 508-515
LeftAdjusted(s, change, pattern) ==
    IF change < 0 THEN SliceFrom(s, Abs(change))
    ELSE IF change > 0 THEN PaddingBlock(pattern, change) \o s
    ELSE s

\* a right adjustment that truncates at the wrong end
RightAdjusted_DropsFront(s, change, pattern) ==
    IF change < 0 THEN SliceFrom(s, Abs(change))
    ELSE IF change > 0 THEN s \o PaddingBlock(pattern, change)
    ELSE s

\* lines 517-524
RightAdjusted(s, change, pattern) ==
    IF change < 0 THEN SliceTo(s, change)
    ELSE IF change > 0 THEN s \o PaddingBlock(pattern, change)
    ELSE s

\* lines 432-506: the checks pass, a missing padding_value gets its default
AdjustStart ==
    /\ UNCHANGED << strategy_frame, multiplier_frame, amend_frame >>
    /\ apc = "call"
    /\ apc' = "left"
    /\ padding_value' = IF padding_value = None
                        THEN Some(DefaultPaddingValue(sequence_type))
                        ELSE padding_value
    /\ UNCHANGED << sequence_type, given_sequence, data_sequence, left_change,
                    right_change >>

\* lines 508-515; len(padding_value) = 0 raises ZeroDivisionError
AdjustLeft ==
    /\ UNCHANGED << strategy_frame, multiplier_frame, amend_frame >>
    /\ apc = "left"
    /\ IF left_change > 0 /\ Len(padding_value[1]) = 0
       THEN apc' = "raised" /\ UNCHANGED data_sequence
       ELSE /\ apc' = "right"
            /\ data_sequence' = LeftAdjusted(data_sequence, left_change, padding_value[1])
    /\ UNCHANGED << sequence_type, given_sequence, left_change, right_change,
                    padding_value >>

\* lines 517-526
AdjustRight ==
    /\ UNCHANGED << strategy_frame, multiplier_frame, amend_frame >>
    /\ apc = "right"
    /\ IF right_change > 0 /\ Len(padding_value[1]) = 0
       THEN apc' = "raised" /\ UNCHANGED data_sequence
       ELSE /\ apc' = "done"
            /\ data_sequence' = RightAdjusted(data_sequence, right_change, padding_value[1])
    /\ UNCHANGED << sequence_type, given_sequence, left_change, right_change,
                    padding_value >>

IdleStrategy ==
    /\ length = 0
    /\ minimum_length = None
    /\ maximum_length = None
    /\ length_is_multiple_of = None
    /\ truncation_side = NoSide
    /\ padding_side = NoSide
    /\ InitGenerator
    /\ pc = "idle"
    /\ result = PendingResult

Elements == { "a", "b" }
PatternElements == { "x", "y" }
Changes == (0 - MaxChange) .. MaxChange

InitAdjust ==
    /\ IdleStrategy
    /\ IdleMultiplier
    /\ IdleAmend
    /\ apc = "call"
    /\ sequence_type \in SequenceTypes
    /\ given_sequence \in SeqsUpTo(Elements, MaxSeqLen)
    /\ data_sequence = given_sequence
    /\ left_change \in Changes
    /\ right_change \in Changes
    /\ padding_value \in { None } \cup { Some(q) : q \in SeqsUpTo(PatternElements, MaxPadLen) }

NextAdjust ==
    \/ AdjustStart
    \/ AdjustLeft
    \/ AdjustRight

SpecAdjust == InitAdjust /\ [][NextAdjust]_vars

-----------------------------------------------------------------------------
(* A call of find_least_common_multiplier on its own *)

CallFindLeastCommonMultiplier ==
    /\ UNCHANGED << strategy_frame, adjuster_frame, amend_frame >>
    /\ mpc = "call"
    /\ least_common_multiplier' = find_least_common_multiplier(multiples)
    /\ mpc' = IF find_least_common_multiplier(multiples) = None THEN "raised" ELSE "done"
    /\ UNCHANGED multiples

Factors == (0 - 1) .. MaxFactor

InitLcm ==
    /\ IdleStrategy
    /\ IdleAdjuster
    /\ IdleAmend
    /\ mpc = "call"
    /\ multiples \in { None } \cup { Some(q) : q \in SeqsUpTo(Factors, MaxFactors) }
    /\ least_common_multiplier = None

NextLcm == CallFindLeastCommonMultiplier

SpecLcm == InitLcm /\ [][NextLcm]_vars

-----------------------------------------------------------------------------
(* The amend_* functions: amend_integer (built_in/numbers/integers.py),    *)
(* amend_immutable_binary, amend_mutable_binary, amend_text               *)
(* (built_in/sequences/data_sequences.py), amend_immutable_sequence and    *)
(* amend_mutable_sequence (built_in/sequences/sequence_containers.py)      *)

DataSequenceFunctions ==
    { "amend_immutable_binary", "amend_mutable_binary", "amend_text" }
SequenceContainerFunctions ==
    { "amend_immutable_sequence", "amend_mutable_sequence" }
SequenceFunctions == DataSequenceFunctions \cup SequenceContainerFunctions

\* the type each function hands to its helper and checks the input against
TypePassed(function) ==
    CASE function = "amend_immutable_binary" -> "bytes"
      [] function = "amend_mutable_binary" -> "bytearray"
      [] function = "amend_text" -> "str"
      [] function = "amend_immutable_sequence" -> "tuple"
      [] function = "amend_mutable_sequence" -> "tuple"
      [] function = "amend_integer" -> "int"

\* the type of what each function returns
TypeReturned(function) ==
    IF function = "amend_mutable_sequence" THEN "list" ELSE TypePassed(function)

TypeMismatchActions == { NoAction, "error", "warning" }
LengthViolationActions == { NoAction, "error", "warning", "truncate-and-pad" }
ValueViolationActions == { NoAction, "error", "warning", "clamp" }

\* a type check that never refuses an input
MismatchIsFatal_Never(action) == FALSE

\* data_sequences.py 210-211, sequence_containers.py 195-196, integers.py
\* 140-141: under 'error' a mismatch raises
MismatchIsFatal(action) == action = "error"

\* isinstance(v, type)
IsInstance(v, type) == v.type = type

\* the shape a fallback value must have
FallbackIsAccepted(function, fallback) ==
    \/ fallback = None
    \/ /\ fallback # None
       /\ IF function \in { "amend_immutable_binary", "amend_mutable_binary" }
          THEN IsInstance(fallback[1], "bytes")
          ELSE IF function = "amend_text" THEN IsInstance(fallback[1], "str")
          ELSE IF function \in SequenceContainerFunctions
          THEN IsInstance(fallback[1], "tuple")
          ELSE IsInstance(fallback[1], "int")

DigitChars == << "0", "1", "2", "3", "4", "5", "6", "7", "8", "9" >>
IsDigit(c) == \E i \in 1 .. Len(DigitChars) : DigitChars[i] = c
DigitValue(c) == (CHOOSE i \in 1 .. Len(DigitChars) : DigitChars[i] = c) - 1

\* str(n) for an int n
RECURSIVE Decimal(_)
Decimal(n) ==
    IF n < 0 THEN << "-" >> \o Decimal(0 - n)
    ELSE IF n < 10 THEN << DigitChars[n + 1] >>
    ELSE Decimal(n \div 10) \o << DigitChars[(n % 10) + 1] >>

\* the number a string of digits denotes
RECURSIVE DigitsValue(_)
DigitsValue(chars) ==
    IF chars = << >> THEN 0
    ELSE 10 * DigitsValue(SubSeq(chars, 1, Len(chars) - 1))
         + DigitValue(chars[Len(chars)])

AllDigits(chars) == chars # << >> /\ \A i \in 1 .. Len(chars) : IsDigit(chars[i])

\* int(text): None when int() raises
ParseInt(chars) ==
    IF AllDigits(chars) THEN Some(DigitsValue(chars))
    ELSE IF chars # << >> /\ chars[1] = "-" /\ AllDigits(Tail(chars))
    THEN Some(0 - DigitsValue(Tail(chars)))
    ELSE None

\* int(x) for a float x = halves / 2: the fraction is dropped
Truncated(halves) ==
    IF halves >= 0 THEN halves \div 2 ELSE 0 - ((0 - halves) \div 2)

\* type(v): the constructor applied to v, None when it raises
Cast(type, v) ==
    IF type \in { "bytes", "bytearray" }
    THEN IF v.type \in { "bytes", "bytearray" }
         THEN Some(Value(type, v.elements, 0))
         ELSE IF v.type = "int" /\ v.number >= 0
         THEN Some(Value(type, [ i \in 1 .. v.number |-> "NUL" ], 0))
         ELSE None
    ELSE IF type = "str"
    THEN IF v.type = "str" THEN Some(v)
         ELSE IF v.type = "int" THEN Some(Value("str", Decimal(v.number), 0))
         ELSE Some(Value("str", << "N", "o", "n", "e" >>, 0))
    ELSE IF type \in { "tuple", "list" }
    THEN IF v.type \in { "tuple", "list", "str" }
         THEN Some(Value(type, v.elements, 0))
         ELSE None
    ELSE IF v.type = "int" THEN Some(v)
         ELSE IF v.type = "float" THEN Some(Value("int", << >>, Truncated(v.number)))
         ELSE IF v.type = "str" /\ ParseInt(v.elements) # None
         THEN Some(Value("int", << >>, ParseInt(v.elements)[1]))
         ELSE None

Raise(e) ==
    /\ ampc' = "raised"
    /\ exception' = e
    /\ UNCHANGED << amended, warnings >>

Warn(about) == warnings' = Append(warnings, about)

\* data_sequences.py 153-202, sequence_containers.py 150-186: the policies
\* and the fallback are validated before the input is looked at
AmendValidate ==
    /\ UNCHANGED << strategy_frame, adjuster_frame, multiplier_frame,
                    amend_arguments, environment >>
    /\ ampc = "call"
    /\ amend_function \in SequenceFunctions
    /\ IF \/ type_mismatch_action \notin TypeMismatchActions
          \/ ~FallbackIsAccepted(amend_function, value_on_cast_error)
          \/ length_violation_action \notin LengthViolationActions
       THEN Raise("ValueError")
       ELSE ampc' = "type_check" /\ UNCHANGED << amended, warnings, exception >>

\* data_sequences.py 203-216, sequence_containers.py 187-202: the type check;
\* a data sequence of the type asked for skips the cast
AmendTypeCheck ==
    /\ UNCHANGED << strategy_frame, adjuster_frame, multiplier_frame,
                    amend_arguments, environment >>
    /\ ampc = "type_check"
    /\ amend_function \in SequenceFunctions
    /\ IF IsInstance(entity, TypePassed(amend_function))
       THEN /\ ampc' = IF amend_function \in DataSequenceFunctions
                       THEN "resolve" ELSE "cast"
            /\ UNCHANGED << amended, warnings, exception >>
       ELSE IF MismatchIsFatal(type_mismatch_action)
       THEN Raise("TypeError")
       ELSE /\ ampc' = "cast"
            /\ IF type_mismatch_action = "warning"
               THEN Warn("type") ELSE UNCHANGED warnings
            /\ UNCHANGED << amended, exception >>

\* data_sequences.py 218-226, sequence_containers.py 204-218: the cast, and
\* the fallback when the cast raises
AmendCast ==
    /\ UNCHANGED << strategy_frame, adjuster_frame, multiplier_frame,
                    amend_arguments, environment >>
    /\ ampc = "cast"
    /\ amend_function \in SequenceFunctions
    /\ LET type == TypePassed(amend_function)
       IN  IF Cast(type, entity) # None
           THEN /\ amended' = Cast(type, entity)[1]
                /\ ampc' = "resolve"
                /\ UNCHANGED << warnings, exception >>
           ELSE IF value_on_cast_error = None
           THEN Raise("TypeError")
           ELSE /\ amended' = Cast(type, value_on_cast_error[1])[1]
                /\ ampc' = "resolve"
                /\ UNCHANGED << warnings, exception >>

\* data_sequences.py 228-236, sequence_containers.py 220-228: the resolver
\* is called on the length of the cast value
AmendResolve ==
    /\ UNCHANGED << adjuster_frame, multiplier_frame, amend_arguments, environment >>
    /\ ampc = "resolve"
    /\ ampc' = "resolving"
    /\ length' = Len(amended.elements)
    /\ pc' = "call"
    /\ UNCHANGED << minimum_length, maximum_length, length_is_multiple_of,
                    truncation_side, padding_side, generator_frame, result,
                    amended, warnings, exception >>

\* a branch that lets a missing strategy pass whatever the action is
ActionLetsNonePass_Always(action) == TRUE

\* data_sequences.py 245-261: only under 'warning' does a missing strategy
\* (None) get past the branch on the action
ActionLetsNonePass(action) == action = "warning"

\* data_sequences.py 237-261, sequence_containers.py 229-256: the branch on
\* the strategy the resolver returned and on length_violation_action
AmendAct ==
    /\ UNCHANGED << strategy_frame, adjuster_frame, multiplier_frame,
                    amend_arguments, environment >>
    /\ ampc = "resolving"
    /\ pc = "done"
    /\ IF result = ValueErrorResult
       THEN Raise("ValueError")
       ELSE IF result = PairResult(0, 0)
       THEN /\ ampc' = "returned"
            /\ amended' = [ amended EXCEPT !.type = TypeReturned(amend_function) ]
            /\ UNCHANGED << warnings, exception >>
       ELSE IF length_violation_action = "error"
       THEN Raise("ValueError")
       ELSE IF result = NoneResult /\ ~ActionLetsNonePass(length_violation_action)
       THEN Raise("ValueError")
       ELSE /\ ampc' = "normalize"
            /\ IF length_violation_action = "warning"
               THEN Warn("length") ELSE UNCHANGED warnings
            /\ UNCHANGED << amended, exception >>

\* data_sequences.py 263-269: the strategy is handed to the adjuster, which
\* reads a missing strategy (None) as (0, 0), normalization.py 450-454;
\* sequence_containers.py 258-263: the call leaves out the required
\* sequence_container_type, so Python raises a TypeError
AmendNormalize ==
    /\ UNCHANGED << strategy_frame, multiplier_frame, amend_arguments, environment >>
    /\ ampc = "normalize"
    /\ IF amend_function \in SequenceContainerFunctions
       THEN /\ Raise("TypeError")
            /\ UNCHANGED adjuster_frame
       ELSE /\ ampc' = "normalizing"
            /\ apc' = "call"
            /\ sequence_type' = amended.type
            /\ given_sequence' = amended.elements
            /\ data_sequence' = amended.elements
            /\ left_change' = result.left
            /\ right_change' = result.right
            /\ UNCHANGED << padding_value, amended, warnings, exception >>

\* data_sequences.py 263-271: the adjusted sequence is returned, or the
\* adjuster's exception leaves the call
AmendReturn ==
    /\ UNCHANGED << strategy_frame, adjuster_frame, multiplier_frame,
                    amend_arguments, environment >>
    /\ ampc = "normalizing"
    /\ apc \in { "done", "raised" }
    /\ IF apc = "raised"
       THEN Raise("ZeroDivisionError")
       ELSE /\ ampc' = "returned"
            /\ amended' = Value(TypeReturned(amend_function), data_sequence, 0)
            /\ UNCHANGED << warnings, exception >>

NextSequence ==
    \/ AmendValidate
    \/ AmendTypeCheck
    \/ AmendCast
    \/ AmendResolve
    \/ Call
    \/ GenStart
    \/ GenWhile
    \/ GenTruncated
    \/ GenPadded
    \/ GenAdvance
    \/ TakeProposal
    \/ Exhausted
    \/ Raised
    \/ AmendAct
    \/ AmendNormalize
    \/ AdjustStart
    \/ AdjustLeft
    \/ AdjustRight
    \/ AmendReturn

-----------------------------------------------------------------------------
(* amend_integer *)

\* integers.py 89-127
IntegerValidate ==
    /\ UNCHANGED << strategy_frame, adjuster_frame, multiplier_frame,
                    amend_arguments, environment >>
    /\ ampc = "call"
    /\ amend_function = "amend_integer"
    /\ IF \/ type_mismatch_action \notin TypeMismatchActions
          \/ ~FallbackIsAccepted(amend_function, value_on_cast_error)
          \/ value_violation_action \notin ValueViolationActions
       THEN Raise("ValueError")
       ELSE ampc' = "type_check" /\ UNCHANGED << amended, warnings, exception >>

\* integers.py 134-147; an int skips the cast
IntegerTypeCheck ==
    /\ UNCHANGED << strategy_frame, adjuster_frame, multiplier_frame,
                    amend_arguments, environment >>
    /\ ampc = "type_check"
    /\ amend_function = "amend_integer"
    /\ IF IsInstance(entity, "int")
       THEN /\ ampc' = "minimum"
            /\ UNCHANGED << amended, warnings, exception >>
       ELSE IF MismatchIsFatal(type_mismatch_action)
       THEN Raise("TypeError")
       ELSE /\ ampc' = "cast"
            /\ IF type_mismatch_action = "warning"
               THEN Warn("type") ELSE UNCHANGED warnings
            /\ UNCHANGED << amended, exception >>

\* integers.py 148-154: the fallback is taken as it is
IntegerCast ==
    /\ UNCHANGED << strategy_frame, adjuster_frame, multiplier_frame,
                    amend_arguments, environment >>
    /\ ampc = "cast"
    /\ amend_function = "amend_integer"
    /\ IF Cast("int", entity) # None
       THEN /\ amended' = Cast("int", entity)[1]
            /\ ampc' = "minimum"
            /\ UNCHANGED << warnings, exception >>
       ELSE IF value_on_cast_error = None
       THEN Raise("TypeError")
       ELSE /\ amended' = value_on_cast_error[1]
            /\ ampc' = "minimum"
            /\ UNCHANGED << warnings, exception >>

\* a lower bound that lets the bound itself count as a violation
BelowMinimum_Inclusive(n, minimum) == minimum # None /\ n <= minimum[1]

\* integers.py 156
BelowMinimum(n, minimum) == minimum # None /\ n < minimum[1]

\* integers.py 169
AboveMaximum(n, maximum) == maximum # None /\ n > maximum[1]

\* integers.py 156-167
IntegerMinimum ==
    /\ UNCHANGED << strategy_frame, adjuster_frame, multiplier_frame,
                    amend_arguments, environment >>
    /\ ampc = "minimum"
    /\ IF ~BelowMinimum(amended.number, minimum_value)
       THEN ampc' = "maximum" /\ UNCHANGED << amended, warnings, exception >>
       ELSE IF value_violation_action = "error"
       THEN Raise("ValueError")
       ELSE /\ ampc' = "maximum"
            /\ IF value_violation_action = "warning"
               THEN Warn("value") ELSE UNCHANGED warnings
            /\ amended' = IF value_violation_action = "clamp"
                          THEN [ amended EXCEPT !.number = minimum_value[1] ]
                          ELSE amended
            /\ UNCHANGED exception

\* integers.py 169-182
IntegerMaximum ==
    /\ UNCHANGED << strategy_frame, adjuster_frame, multiplier_frame,
                    amend_arguments, environment >>
    /\ ampc = "maximum"
    /\ IF ~AboveMaximum(amended.number, maximum_value)
       THEN ampc' = "returned" /\ UNCHANGED << amended, warnings, exception >>
       ELSE IF value_violation_action = "error"
       THEN Raise("ValueError")
       ELSE /\ ampc' = "returned"
            /\ IF value_violation_action = "warning"
               THEN Warn("value") ELSE UNCHANGED warnings
            /\ amended' = IF value_violation_action = "clamp"
                          THEN [ amended EXCEPT !.number = maximum_value[1] ]
                          ELSE amended
            /\ UNCHANGED exception

NextInteger ==
    \/ IntegerValidate
    \/ IntegerTypeCheck
    \/ IntegerCast
    \/ IntegerMinimum
    \/ IntegerMaximum

-----------------------------------------------------------------------------
(* Specifications of one amend_* call *)

\* a sequence of n elements that differ from their neighbours
Word(n) == [ i \in 1 .. n |-> IF i % 2 = 1 THEN "a" ELSE "b" ]

\* the callee frames before the amend call reaches them
InitCallees ==
    /\ length = 0
    /\ InitGenerator
    /\ pc = "idle"
    /\ result = PendingResult
    /\ apc = "idle"
    /\ sequence_type = "bytes"
    /\ given_sequence = << >>
    /\ data_sequence = << >>
    /\ left_change = 0
    /\ right_change = 0
    /\ IdleMultiplier

InitCall ==
    /\ ampc = "call"
    /\ amended = entity
    /\ warnings = << >>
    /\ exception = NoException
    /\ calls = 1

\* Calls of the five sequence functions on sequences of 0..MaxAmendLen
\* elements of the type the function returns, every length policy, every
\* pair of valid or unset sides.
AmendLengths == 0 .. MaxAmendLen
OptionalAmendLengths == { None } \cup { Some(n) : n \in AmendLengths }

InitLength ==
    /\ amend_function \in SequenceFunctions
    /\ entity \in { Value(TypeReturned(amend_function), Word(n), 0) :
                      n \in AmendLengths }
    /\ type_mismatch_action = NoAction
    /\ value_on_cast_error = None
    /\ length_violation_action \in LengthViolationActions
    /\ minimum_value = None
    /\ maximum_value = None
    /\ value_violation_action = NoAction
    /\ minimum_length \in OptionalAmendLengths
    /\ maximum_length \in OptionalAmendLengths
    /\ length_is_multiple_of \in { None, Some(<< 2 >>), Some(<< 0 >>) }
    /\ truncation_side \in Sides \cup { NoSide }
    /\ padding_side \in Sides \cup { NoSide }
    /\ padding_value \in IF amend_function \in DataSequenceFunctions
                         THEN { None, Some(<< "x", "y" >>) }
                         ELSE { None }
    /\ not_existing_action = NoAction
    /\ category_mismatch_action = NoAction
    /\ filesystem = { }
    /\ given_filesystem = { }
    /\ InitCallees
    /\ InitCall

SpecLength == InitLength /\ [][NextSequence]_vars

\* Calls of the five sequence functions on inputs of the type asked for, of
\* another type that casts, and of a type that does not; every value of the
\* policies, the out-of-domain ones included.
SequenceInputs(function) ==
    IF function \in { "amend_immutable_binary", "amend_mutable_binary" }
    THEN { Value("bytes", Word(1), 0), Value("bytearray", Word(1), 0),
           Value("int", << >>, 1), Value("str", Word(1), 0), NoValue }
    ELSE IF function = "amend_text"
    THEN { Value("str", Word(1), 0), Value("int", << >>, 1), NoValue }
    ELSE { Value("tuple", Word(1), 0), Value("list", Word(1), 0),
           Value("str", Word(1), 0), NoValue }

SequenceFallbacks(function) ==
    { None, Some(Value("int", << >>, 0)),
      Some(Value(IF function \in SequenceContainerFunctions THEN "tuple"
                 ELSE IF function = "amend_text" THEN "str" ELSE "bytes",
                 Word(2), 0)) }

InitSequenceCall ==
    /\ amend_function \in SequenceFunctions
    /\ entity \in SequenceInputs(amend_function)
    /\ type_mismatch_action \in TypeMismatchActions \cup { InvalidAction }
    /\ value_on_cast_error \in SequenceFallbacks(amend_function)
    /\ length_violation_action \in LengthViolationActions \cup { InvalidAction }
    /\ minimum_value = None
    /\ maximum_value = None
    /\ value_violation_action = NoAction
    /\ minimum_length \in { None, Some(2) }
    /\ maximum_length \in { None, Some(0) }
    /\ length_is_multiple_of \in { None, Some(<< 0 >>) }
    /\ truncation_side \in { NoSide, "left", InvalidSide }
    /\ padding_side \in { NoSide, "right", InvalidSide }
    /\ padding_value = None
    /\ not_existing_action = NoAction
    /\ category_mismatch_action = NoAction
    /\ filesystem = { }
    /\ given_filesystem = { }
    /\ InitCallees
    /\ InitCall

\* Calls of amend_integer on ints, floats, strings and None.
IntegerValues == (0 - MaxValue) .. MaxValue

IntegerInputs ==
    { Value("int", << >>, n) : n \in IntegerValues }
    \cup { Value("float", << >>, h) : h \in IntegerValues }
    \cup { Value("str", chars, 0) :
             chars \in { << "2" >>, << "-", "1" >>, << "1", "0" >>, << "a" >>, << >> } }
    \cup { NoValue }

InitIntegerCall ==
    /\ amend_function = "amend_integer"
    /\ entity \in IntegerInputs
    /\ type_mismatch_action \in TypeMismatchActions \cup { InvalidAction }
    /\ value_on_cast_error \in { None, Some(Value("str", << "2" >>, 0)) }
                               \cup { Some(Value("int", << >>, n)) : n \in IntegerValues }
    /\ length_violation_action = NoAction
    /\ minimum_value \in { None } \cup { Some(n) : n \in IntegerValues }
    /\ maximum_value \in { None } \cup { Some(n) : n \in IntegerValues }
    /\ value_violation_action \in ValueViolationActions \cup { InvalidAction }
    /\ minimum_length = None
    /\ maximum_length = None
    /\ length_is_multiple_of = None
    /\ truncation_side = NoSide
    /\ padding_side = NoSide
    /\ padding_value = None
    /\ not_existing_action = NoAction
    /\ category_mismatch_action = NoAction
    /\ filesystem = { }
    /\ given_filesystem = { }
    /\ InitCallees
    /\ InitCall

InitAmend == InitSequenceCall \/ InitIntegerCall

NextAmend == NextSequence \/ NextInteger

SpecAmend == InitAmend /\ [][NextAmend]_vars

-----------------------------------------------------------------------------
(* What the claims speak of *)

Divisors == IF length_is_multiple_of = None THEN << >> ELSE length_is_multiple_of[1]

DivisorsAreNatural == \A i \in 1 .. Len(Divisors) : Divisors[i] >= 1

SidesAreValid == ~SideIsInvalid(truncation_side) /\ ~SideIsInvalid(padding_side)

\* n satisfies minimum_length, maximum_length and every divisor, as given
SatisfiesConstraints(n) ==
    /\ n >= 0
    /\ minimum_length = None \/ n >= minimum_length[1]
    /\ maximum_length = None \/ n <= maximum_length[1]
    /\ \A i \in 1 .. Len(Divisors) : Divisors[i] >= 1 /\ n % Divisors[i] = 0

ResultingLength == length + result.left + result.right

\* floor(d / 2), stated without the division operator
Floor2(d) == CHOOSE q \in (0 - MaxCandidate) .. MaxCandidate : 2 * q <= d /\ d < 2 * q + 2

\* the change the resolver accepted: the last value it pulled
AcceptedChange == yielded[Len(yielded)]

\* C1: whenever determine_length_normalization_strategy returns a pair, the
\* resulting length length+left+right lies within [minimum_length,
\* maximum_length] and is a multiple of every element of length_is_multiple_of.
C1_ResultSatisfiesConstraints ==
    result.kind = "pair" => SatisfiesConstraints(ResultingLength)

C1_Witness ==
    /\ pc = "done"
    /\ result.kind = "pair"
    /\ result.left # 0
    /\ result.right # 0
    /\ minimum_length # None
    /\ maximum_length # None
    /\ Len(Divisors) = 2

\* C2: if length already satisfies minimum_length, maximum_length and every
\* divisor, the resolver returns (0, 0) whatever the two sides are, and the
\* zero change is the first proposal the generator yields.
C2_ValidLengthNeedsNoChange ==
    (SidesAreValid /\ SatisfiesConstraints(length)) =>
        /\ Len(yielded) >= 1 => yielded[1] = 0
        /\ pc = "done" => result = PairResult(0, 0) /\ yielded = << 0 >>

C2_Witness ==
    /\ pc = "done"
    /\ result = PairResult(0, 0)
    /\ SatisfiesConstraints(length)
    /\ length > 0
    /\ Len(Divisors) > 0
    /\ minimum_length # None
    /\ truncation_side = NoSide
    /\ padding_side = NoSide

\* No length the resolver may move to is valid: length itself is not, no
\* shorter one is or truncation is disabled, no longer one is or padding is
\* disabled.
NoAcceptableLength ==
    /\ SidesAreValid
    /\ DivisorsAreNatural
    /\ ~SatisfiesConstraints(length)
    /\ \/ truncation_side = NoSide
       \/ \A n \in 0 .. length : ~SatisfiesConstraints(n)
    /\ \/ padding_side = NoSide
       \/ /\ maximum_length # None
          /\ \A n \in length .. maximum_length[1] : ~SatisfiesConstraints(n)

\* the most proposals a returning call pulls within the bounds of the model
MaxPulls == MaxLen + 2

ReturningCallsPullFew == pc = "done" => Len(yielded) <= MaxPulls

\* C3: determine_length_normalization_strategy terminates on every input, and
\* when only a disabled direction holds valid lengths it returns None after
\* pulling a bounded number of proposals: a call that has no acceptable length
\* never pulls more proposals than the calls that return do.
C3_ReturnsNoneAfterBoundedPulls ==
    NoAcceptableLength => Len(yielded) <= MaxPulls

\* Once truncation has run out below minimum_length with padding disabled and
\* no maximum_length, the call is in a loop it never leaves.
C3_Trapped ==
    /\ pc = "loop"
    /\ gpc \in { "while", "truncated", "padded", "advance" }
    /\ padding_side = NoSide
    /\ truncation_side # NoSide
    /\ maximum_length = None
    /\ length_when_truncated < MinimumLength
    /\ length < length_when_padded
    /\ new_length_when_truncated < MinimumLength
    /\ length < new_length_when_padded

C3_TrappedForever == [][C3_Trapped => C3_Trapped']_vars

\* C4: an accepted non-zero change d is split by the side of its direction:
\* 'left' gives (d, 0), 'right' gives (0, d), the two 'both' sides give a pair
\* that sums to d, has no opposite signs, differs in magnitude by at most 1
\* and gives the larger magnitude to the prioritized side.
C4_SplitFollowsSide ==
    (pc = "done" /\ result.kind = "pair" /\ result # PairResult(0, 0)) =>
        LET d == AcceptedChange
            side == IF d < 0 THEN truncation_side ELSE padding_side
            l == result.left
            r == result.right
        IN  /\ d # 0
            /\ side \in Sides
            /\ side = "left" => (l = d /\ r = 0)
            /\ side = "right" => (l = 0 /\ r = d)
            /\ side \in { "both-but-prioritize-left", "both-but-prioritize-right" } =>
                 /\ l + r = d
                 /\ l * r >= 0
                 /\ Abs(Abs(l) - Abs(r)) <= 1
            /\ side = "both-but-prioritize-left" => Abs(l) >= Abs(r)
            /\ side = "both-but-prioritize-right" => Abs(r) >= Abs(l)
            /\ (side = "both-but-prioritize-left" /\ d < 0) =>
                 (l = Floor2(d) /\ r = d - Floor2(d))

C4_Witness ==
    /\ pc = "done"
    /\ truncation_side = "both-but-prioritize-left"
    /\ result = PairResult(0 - 2, 0 - 1)

\* the valid lengths below and above length
ValidBelow == { n \in 0 .. length : n < length /\ SatisfiesConstraints(n) }
ValidAbove == { n \in length .. MaxCandidate : n > length /\ SatisfiesConstraints(n) }
Largest(S) == CHOOSE n \in S : \A m \in S : m <= n
Smallest(S) == CHOOSE n \in S : \A m \in S : n <= m

\* C5: with exactly one direction enabled and length not valid, the total
\* change returned reaches the nearest valid length in that direction: the
\* largest valid length below length with only truncation_side set (that is
\* -(length mod d) when the divisors are the only constraint), the smallest
\* valid length above it with only padding_side set (d - (length mod d)).
C5_NearestInEnabledDirection ==
    (pc = "done" /\ SidesAreValid /\ DivisorsAreNatural /\ ~SatisfiesConstraints(length)) =>
        /\ (truncation_side # NoSide /\ padding_side = NoSide) =>
             /\ result.kind = "pair" <=> ValidBelow # { }
             /\ result.kind = "pair" => ResultingLength = Largest(ValidBelow)
             /\ (minimum_length = None /\ maximum_length = None) =>
                  /\ result.kind = "pair"
                  /\ result.left + result.right = 0 - (length % differential)
        /\ (truncation_side = NoSide /\ padding_side # NoSide) =>
             /\ result.kind = "pair" <=> ValidAbove # { }
             /\ result.kind = "pair" => ResultingLength = Smallest(ValidAbove)
             /\ (minimum_length = None /\ maximum_length = None) =>
                  /\ result.kind = "pair"
                  /\ result.left + result.right = differential - (length % differential)

C5_Witness ==
    /\ pc = "done"
    /\ truncation_side = "left"
    /\ padding_side = NoSide
    /\ maximum_length # None
    /\ differential > 1
    /\ result.kind = "pair"
    /\ result.left < 0 - (length % differential)

\* C6: the generator yields its proposals nearest first: the absolute value
\* never decreases from one proposal to the next.
C6_NearestFirst ==
    \A i \in 1 .. Len(yielded) - 1 : Abs(yielded[i]) <= Abs(yielded[i + 1])

-----------------------------------------------------------------------------
(* The length adjusters *)

Pattern == padding_value[1]

\* the first n elements of the pattern repeated: element i is p[i mod len(p)]
TiledBlock(n) == [ i \in 1 .. n |-> Pattern[((i - 1) % Len(Pattern)) + 1] ]

\* the elements of given_sequence from index k + 1 on
GivenFrom(k) == [ i \in 1 .. Max2(Len(given_sequence) - k, 0) |-> given_sequence[i + k] ]

\* C7: for a non-empty padding pattern the adjusters obey the length law: with
\* both changes >= 0 the result has length len(s)+a+b, with both <= 0 it has
\* length max(0, len(s)+a+b), and over-truncation gives the empty sequence
\* without raising.
C7_LengthLaw ==
    (apc \in { "left", "right", "done", "raised" } /\ Len(Pattern) > 0) =>
        /\ apc # "raised"
        /\ apc = "done" =>
             /\ (left_change >= 0 /\ right_change >= 0) =>
                  Len(data_sequence) = Len(given_sequence) + left_change + right_change
             /\ (left_change <= 0 /\ right_change <= 0) =>
                  /\ Len(data_sequence) =
                        Max2(0, Len(given_sequence) + left_change + right_change)
                  /\ Len(given_sequence) + left_change + right_change <= 0 =>
                        data_sequence = << >>

C7_Witness ==
    /\ apc = "done"
    /\ sequence_type = "tuple"
    /\ Len(given_sequence) = 2
    /\ left_change < 0
    /\ right_change < 0
    /\ Len(given_sequence) + left_change + right_change < 0
    /\ data_sequence = << >>

\* C8: a side padded by n > 0 elements receives exactly the first n elements
\* of the pattern repeated, counted from the start of the block on either
\* side; the block is prepended on the left and appended on the right, and
\* the original elements stay unchanged and in order between the two blocks.
C8_PaddingTiles ==
    (apc \in { "right", "done" } /\ Len(Pattern) > 0) =>
        /\ (apc = "right" /\ left_change > 0) =>
             data_sequence = TiledBlock(left_change) \o given_sequence
        /\ (apc = "done" /\ right_change > 0) =>
             data_sequence =
                 (IF left_change > 0
                  THEN TiledBlock(left_change) \o given_sequence
                  ELSE GivenFrom(Abs(left_change)))
                 \o TiledBlock(right_change)
        /\ (apc = "done" /\ left_change > 0 /\ right_change >= 0) =>
             data_sequence =
                 TiledBlock(left_change) \o given_sequence \o TiledBlock(right_change)

C8_Witness ==
    /\ apc = "done"
    /\ sequence_type = "bytes"
    /\ given_sequence = << "a", "b" >>
    /\ Pattern = << "x", "y" >>
    /\ left_change = 3
    /\ right_change = 3
    /\ data_sequence = << "x", "y", "x", "a", "b", "x", "y", "x" >>

-----------------------------------------------------------------------------
(* The least common multiplier *)

GivenMultiples == IF multiples = None THEN << >> ELSE multiples[1]

GivenSet == { GivenMultiples[i] : i \in 1 .. Len(GivenMultiples) }

\* r is the smallest positive integer that every element of S divides
IsLeastCommonMultiple(r, S) ==
    /\ r >= 1
    /\ \A x \in S : r % x = 0
    /\ \A m \in 1 .. (r - 1) : \E x \in S : m % x # 0

\* C9: for every non-empty collection of positive integers
\* find_least_common_multiplier returns the smallest positive integer
\* divisible by every element, whatever their order and repetitions; it
\* returns 1 for an empty or absent collection and n for the collection (n).
C9_LeastCommonMultiple ==
    (mpc # "call" /\ \A x \in GivenSet : x >= 1) =>
        /\ mpc = "done"
        /\ IsLeastCommonMultiple(least_common_multiplier[1], GivenSet)
        /\ Len(GivenMultiples) = 0 => least_common_multiplier = Some(1)
        /\ Len(GivenMultiples) = 1 => least_common_multiplier = Some(GivenMultiples[1])

C9_Witness ==
    /\ mpc = "done"
    /\ multiples = Some(<< 4, 6, 3 >>)
    /\ least_common_multiplier = Some(12)

\* C10: find_least_common_multiplier raises a ValueError and returns no value
\* whenever any element is smaller than 1, whatever its position and the
\* other elements; the same error surfaces from the generator, which then
\* yields nothing, and from determine_length_normalization_strategy.
C10_RejectedDivisorRaises ==
    ~DivisorsAreNatural =>
        /\ find_least_common_multiplier(length_is_multiple_of) = None
        /\ gpc \in { "start", "raised" }
        /\ yielded = << >>
        /\ pc = "done" => result = ValueErrorResult

C10_Witness ==
    /\ pc = "done"
    /\ result = ValueErrorResult
    /\ SidesAreValid
    /\ Len(Divisors) = 2
    /\ Divisors[1] >= 1
    /\ Divisors[2] < 1
    /\ SatisfiesConstraints(length) = FALSE

-----------------------------------------------------------------------------
(* What the claims about the amend_* functions speak of *)

CallEnded == ampc \in { "returned", "raised" }

\* the cast value, before any normalization, is what the resolver measured
CastLength == length

\* the call has passed the cast and the resolver has been handed the length
Measured == ampc \in { "resolving", "normalize", "normalizing", "returned", "raised" }
            /\ pc # "idle"

LengthIsValid == SatisfiesConstraints(CastLength)

\* an amend call that ends never made its resolver pull more than MaxPulls
\* proposals
EndedCallsPullFew == CallEnded => Len(yielded) <= MaxPulls

\* under 'error', a data-sequence call that ends raised a ValueError exactly
\* when the length is invalid, and otherwise returned its input
ErrorOutcomeWhenCallEnds ==
    ( /\ amend_function \in DataSequenceFunctions
      /\ length_violation_action = "error"
      /\ DivisorsAreNatural
      /\ CallEnded )
    => /\ ampc = "raised" <=> ~LengthIsValid
       /\ ampc = "raised" => exception = "ValueError"
       /\ ampc = "returned" => amended = entity

\* C11: with length_violation_action='error' the data-sequence functions
\* raise a ValueError if and only if the length of the value violates the
\* constraints and otherwise return the value unchanged, and this outcome does
\* not depend on the sides: whatever the sides are, the call ends with that
\* outcome within the proposals a call that ends pulls.
C11_ErrorRaisesIffViolated ==
    ( /\ amend_function \in DataSequenceFunctions
      /\ length_violation_action = "error"
      /\ DivisorsAreNatural
      /\ Measured )
    => /\ Len(yielded) <= MaxPulls
       /\ ampc = "raised" => exception = "ValueError" /\ ~LengthIsValid
       /\ ampc = "returned" => LengthIsValid /\ amended = entity

\* C12: with length_violation_action unset, the five sequence functions never
\* raise because of the length of the value (the sides and the divisors are
\* valid here and the input casts, so no other cause of an exception exists).
C12_UnsetNeverRaises ==
    ( /\ amend_function \in SequenceFunctions
      /\ length_violation_action = NoAction
      /\ DivisorsAreNatural )
    => ampc # "raised"

\* the value the cast gives for the input of the call
CastInput == Cast(TypePassed(amend_function), entity)[1]

\* C13: truncation and padding are applied only under 'truncate-and-pad':
\* when length_violation_action is 'warning' or unset, the sequence a
\* data-sequence function returns has exactly the elements of the cast input,
\* whatever the sides are.
C13_OnlyTruncateAndPadChanges ==
    ( /\ amend_function \in DataSequenceFunctions
      /\ length_violation_action \in { "warning", NoAction }
      /\ ampc = "returned" )
    => amended = CastInput

\* the pattern the caller gave, or the default the claim names: the zero byte
\* for binary, '_' for text
PatternWasGiven ==
    /\ padding_value # None
    /\ \A i \in 1 .. Len(padding_value[1]) : padding_value[1][i] \in PatternElements
ClaimedPattern ==
    IF PatternWasGiven THEN padding_value[1]
    ELSE IF amend_function = "amend_text" THEN << "_" >> ELSE << "NUL" >>

TileOf(pattern, n) == [ i \in 1 .. n |-> pattern[((i - 1) % Len(pattern)) + 1] ]

\* the cast input with a elements dropped from (a < 0) or added at (a > 0)
\* its left end, and b at its right end
Normalized(s, a, b, pattern) ==
    LET kept == [ i \in 1 .. Max2(Len(s) - Max2(0 - a, 0) - Max2(0 - b, 0), 0)
                    |-> s[i + Max2(0 - a, 0)] ]
    IN  TileOf(pattern, Max2(a, 0)) \o kept \o TileOf(pattern, Max2(b, 0))

\* C14: whenever a data-sequence function called with 'truncate-and-pad'
\* returns, the returned value has a length within [minimum_length,
\* maximum_length] that is a multiple of every divisor, and it is the cast
\* input with elements dropped at its ends or with positions added that are
\* filled with padding_value, by default the zero byte for binary and '_' for
\* text.
C14_TruncateAndPadGivesValidLength ==
    ( /\ amend_function \in DataSequenceFunctions
      /\ length_violation_action = "truncate-and-pad"
      /\ ampc = "returned" )
    => /\ SatisfiesConstraints(Len(amended.elements))
       /\ amended.type = TypePassed(amend_function)
       /\ amended.elements = Normalized(CastInput.elements, result.left,
                                        result.right, ClaimedPattern)

\* the analogue of b"abc" with minimum_length=5: a one-byte value padded on
\* the right with one zero byte
C14_Witness ==
    /\ amend_function = "amend_immutable_binary"
    /\ length_violation_action = "truncate-and-pad"
    /\ ampc = "returned"
    /\ entity.elements = << "a" >>
    /\ minimum_length = Some(2)
    /\ padding_side = "right"
    /\ amended.elements = << "a", "NUL" >>

\* C15: amend_immutable_sequence and amend_mutable_sequence called with
\* 'truncate-and-pad' return normally whenever the resolver gives a strategy:
\* a non-zero pair is applied by the adjuster (default pad element None) and
\* the returned container has a length that satisfies the constraints.
C15_ContainersAreNormalized ==
    ( /\ amend_function \in SequenceContainerFunctions
      /\ length_violation_action = "truncate-and-pad"
      /\ result.kind = "pair"
      /\ CallEnded )
    => /\ ampc = "returned"
       /\ SatisfiesConstraints(Len(amended.elements))
       /\ amended.elements = Normalized(CastInput.elements, result.left,
                                        result.right, << "None" >>)

\* every policy of the call is in its domain and the fallback has its shape
PoliciesAreValid ==
    /\ type_mismatch_action \in TypeMismatchActions
    /\ length_violation_action \in LengthViolationActions
    /\ value_violation_action \in ValueViolationActions
    /\ ~SideIsInvalid(truncation_side)
    /\ ~SideIsInvalid(padding_side)
    /\ FallbackIsAccepted(amend_function, value_on_cast_error)

TypeCheckIsOver == ampc \notin { "idle", "call", "type_check" }

\* the call was left by a TypeError before the length was looked at
TypeErrorBeforeLength == ampc = "raised" /\ exception = "TypeError" /\ pc = "idle"

\* C16: amend_mutable_sequence treats list as its canonical type: with
\* type_mismatch_action='error' a list input passes the type check without a
\* TypeError or a warning, and every other input, a tuple included, raises a
\* TypeError.
C16_ListIsCanonical ==
    ( /\ amend_function = "amend_mutable_sequence"
      /\ type_mismatch_action = "error"
      /\ PoliciesAreValid
      /\ TypeCheckIsOver )
    => IF IsInstance(entity, "list")
       THEN ~TypeErrorBeforeLength /\ warnings = << >>
       ELSE TypeErrorBeforeLength

\* no length at all satisfies minimum_length, maximum_length and the divisors
Unsatisfiable == \A n \in 0 .. MaxCandidate : ~SatisfiesConstraints(n)

\* C17: when 'truncate-and-pad' is requested and no length in
\* [minimum_length, maximum_length] is a multiple of all divisors, the
\* resolver returns None and the data-sequence functions raise a ValueError
\* instead of returning a value, for every setting of the sides: the call
\* pulls a bounded number of proposals, never reaches the adjuster or a
\* return, can always take a step until it has raised, and what it raises is
\* a ValueError.
C17_UnsatisfiableRaises ==
    ( /\ amend_function \in DataSequenceFunctions
      /\ length_violation_action = "truncate-and-pad"
      /\ DivisorsAreNatural
      /\ Unsatisfiable
      /\ Measured )
    => /\ pc = "done" => result = NoneResult
       /\ Len(yielded) <= MaxPulls
       /\ ampc \notin { "normalize", "normalizing", "returned" }
       /\ ampc = "raised" => exception = "ValueError"
       /\ ampc = "raised" \/ ENABLED NextSequence

C17_Witness ==
    /\ amend_function = "amend_text"
    /\ length_violation_action = "truncate-and-pad"
    /\ minimum_length = Some(2)
    /\ maximum_length = Some(1)
    /\ truncation_side = "left"
    /\ padding_side = "both-but-prioritize-right"
    /\ result = NoneResult
    /\ ampc = "raised"
    /\ exception = "ValueError"

\* the type each function is documented to return
CanonicalType(function) ==
    CASE function = "amend_integer" -> "int"
      [] function = "amend_immutable_binary" -> "bytes"
      [] function = "amend_mutable_binary" -> "bytearray"
      [] function = "amend_text" -> "str"
      [] function = "amend_immutable_sequence" -> "tuple"
      [] function = "amend_mutable_sequence" -> "list"

InputIsCanonical == entity.type = CanonicalType(amend_function)

\* the arguments checked on entry are all accepted
ArgumentsPassValidation ==
    /\ type_mismatch_action \in TypeMismatchActions
    /\ length_violation_action \in LengthViolationActions
    /\ value_violation_action \in ValueViolationActions
    /\ \/ value_on_cast_error = None
       \/ value_on_cast_error[1].type
            = IF amend_function = "amend_mutable_binary" THEN "bytes"
              ELSE CanonicalType(amend_function)

TypeWarnings == SelectSeq(warnings, LAMBDA w : w = "type")

\* the value the call works on once the cast, or the fallback, is done
ValueAfterCast ==
    IF Cast(CanonicalType(amend_function), entity) # None
    THEN Cast(CanonicalType(amend_function), entity)[1]
    ELSE IF amend_function = "amend_integer" THEN value_on_cast_error[1]
    ELSE Cast(CanonicalType(amend_function), value_on_cast_error[1])[1]

\* C18: in amend_integer and the data-sequence functions the type check
\* precedes the cast.  An input that is not of the canonical type raises a
\* TypeError under type_mismatch_action='error' before any cast, even when it
\* could be cast; it is cast without a warning when the action is unset and
\* after exactly one warning under 'warning'.  An input of the canonical type
\* never triggers a type-mismatch error or warning.
C18_TypeCheckPrecedesCast ==
    ( /\ amend_function \in DataSequenceFunctions \cup { "amend_integer" }
      /\ ArgumentsPassValidation
      /\ TypeCheckIsOver )
    => IF InputIsCanonical
       THEN exception # "TypeError" /\ TypeWarnings = << >>
       ELSE IF type_mismatch_action = "error"
       THEN ampc = "raised" /\ exception = "TypeError" /\ amended = entity
            /\ warnings = << >>
       ELSE /\ TypeWarnings = IF type_mismatch_action = "warning"
                              THEN << "type" >> ELSE << >>
            /\ ampc = "cast" => amended = entity
            /\ ampc \in { "resolve", "minimum" } => amended = ValueAfterCast
            /\ TypeErrorBeforeLength
                 => /\ Cast(CanonicalType(amend_function), entity) = None
                    /\ value_on_cast_error = None

\* a string that int() would accept is refused under 'error'
C18_Witness ==
    /\ amend_function = "amend_integer"
    /\ entity = Value("str", << "2" >>, 0)
    /\ type_mismatch_action = "error"
    /\ ampc = "raised"
    /\ exception = "TypeError"
    /\ amended = entity

WithinBounds(n) ==
    /\ minimum_value = None \/ n >= minimum_value[1]
    /\ maximum_value = None \/ n <= maximum_value[1]

\* n snapped to minimum_value, then to maximum_value
Clamped(n) ==
    LET raised_to_minimum == IF minimum_value # None /\ n < minimum_value[1]
                             THEN minimum_value[1] ELSE n
    IN  IF maximum_value # None /\ raised_to_minimum > maximum_value[1]
        THEN maximum_value[1] ELSE raised_to_minimum

CastFails == Cast("int", entity) = None

\* C19: when the cast of the input fails, amend_integer raises a TypeError if
\* value_on_cast_error is unset; if it is set, the fallback replaces the input
\* and goes through the constraint check and remediation a cast value goes
\* through: under 'error' a value outside the bounds raises a ValueError,
\* under 'clamp' the result is the value snapped to the bounds, otherwise the
\* value is returned as it is.
C19_FallbackIsChecked ==
    ( /\ amend_function = "amend_integer"
      /\ ArgumentsPassValidation
      /\ type_mismatch_action # "error"
      /\ ampc \in { "minimum", "maximum", "returned", "raised" } )
    => IF CastFails /\ value_on_cast_error = None
       THEN ampc = "raised" /\ exception = "TypeError"
       ELSE LET n == ValueAfterCast.number
            IN  /\ ampc = "minimum" => amended = ValueAfterCast
                /\ ampc = "raised"
                     => /\ exception = "ValueError"
                        /\ value_violation_action = "error"
                        /\ ~WithinBounds(n)
                /\ ampc = "returned"
                     => /\ amended.type = "int"
                        /\ value_violation_action = "error" => WithinBounds(n)
                        /\ amended.number = IF value_violation_action = "clamp"
                                            THEN Clamped(n) ELSE n

\* None does not cast; the fallback 0 lies below minimum_value 1 and is
\* clamped to it
C19_Witness ==
    /\ amend_function = "amend_integer"
    /\ entity = NoValue
    /\ value_on_cast_error = Some(Value("int", << >>, 0))
    /\ minimum_value = Some(1)
    /\ value_violation_action = "clamp"
    /\ ampc = "returned"
    /\ amended.number = 1

PolicyOutOfDomain ==
    \/ type_mismatch_action \notin TypeMismatchActions
    \/ length_violation_action \notin LengthViolationActions
    \/ value_violation_action \notin ValueViolationActions
    \/ SideIsInvalid(truncation_side)
    \/ SideIsInvalid(padding_side)

\* a call with an out-of-domain policy never reaches the adjuster or a return
InvalidPolicyNeverReturns ==
    PolicyOutOfDomain => ampc \notin { "normalize", "normalizing", "returned" }

\* apart from amend_mutable_sequence, a call with an out-of-domain policy on
\* an input of the canonical type ends in a ValueError
InvalidPolicyIsFatalElsewhere ==
    ( /\ PolicyOutOfDomain
      /\ amend_function # "amend_mutable_sequence"
      /\ InputIsCanonical
      /\ CallEnded )
    => exception = "ValueError"

\* C20: an out-of-domain value for type_mismatch_action,
\* value_violation_action, length_violation_action, truncation_side or
\* padding_side is always fatal: the amend call never returns a value, and on
\* an input of the canonical type the exception that ends it is a ValueError.
C20_InvalidPolicyIsFatal ==
    PolicyOutOfDomain
    => /\ ampc \notin { "normalize", "normalizing", "returned" }
       /\ InputIsCanonical /\ CallEnded => exception = "ValueError"

-----------------------------------------------------------------------------
(* Further claims about the resolver, the generator and the adjuster *)

BothSidesSet == truncation_side \in Sides /\ padding_side \in Sides

\* C24: when both sides are set, the total change left+right that
\* determine_length_normalization_strategy returns has the smallest absolute
\* value among the changes to all lengths that satisfy minimum_length,
\* maximum_length and the divisors.
C24_ReturnsNearestLength ==
    ( /\ BothSidesSet
      /\ DivisorsAreNatural
      /\ pc = "done"
      /\ result.kind = "pair" )
    => \A n \in 0 .. MaxCandidate :
         SatisfiesConstraints(n)
           => Abs(result.left + result.right) <= Abs(n - length)

PaddingProposals == SelectSeq(yielded, LAMBDA delta : delta > 0)

\* the only point at which a generator without maximum_length stops being
\* followed is the bound on the candidates
OnlyTheBoundStopsTheWalk ==
    ( /\ pc = "drain"
      /\ maximum_length = None
      /\ DivisorsAreNatural
      /\ ~ENABLED NextEnum )
    => gpc = "advance" /\ new_length_when_padded > MaxCandidate

\* C25: iterate_over_lengths_satisfying_constraints is exhausted after
\* finitely many steps whenever maximum_length is given; when maximum_length
\* is unset it is never exhausted and its padding proposals keep growing,
\* whatever minimum_length and the divisors are.
C25_ExhaustedIffBounded ==
    /\ (maximum_length # None /\ DivisorsAreNatural) => <>(gpc = "exhausted")
    /\ []( (maximum_length = None /\ DivisorsAreNatural)
             => /\ gpc # "exhausted"
                /\ \A i \in 1 .. Len(PaddingProposals) - 1 :
                     PaddingProposals[i] < PaddingProposals[i + 1] )

\* a bounded generator that is exhausted after several proposals
C25_Witness ==
    /\ maximum_length # None
    /\ DivisorsAreNatural
    /\ gpc = "exhausted"
    /\ Len(yielded) >= 3

\* an unbounded generator still running after several padding proposals
StillPadding ==
    /\ maximum_length = None
    /\ minimum_length # None
    /\ Len(PaddingProposals) >= 3
    /\ gpc = "while"

\* the adjuster as a function of the sequence and the pair
Adjust(s, a, b) ==
    RightAdjusted(LeftAdjusted(s, a, padding_value[1]), b, padding_value[1])

\* C26: the left and right adjustments are independent: for every sequence s
\* and every pair (a, b), pairs of mixed sign and over-truncating pairs
\* included, adjust(s, (a, b)) equals adjust(adjust(s, (a, 0)), (0, b)) and
\* equals adjust(adjust(s, (0, b)), (a, 0)).
C26_AdjustmentsAreIndependent ==
    apc = "done"
    => /\ data_sequence
            = Adjust(Adjust(given_sequence, left_change, 0), 0, right_change)
       /\ data_sequence
            = Adjust(Adjust(given_sequence, 0, right_change), left_change, 0)

\* the first of the two equations on its own
LeftThenRight ==
    apc = "done"
    => data_sequence = Adjust(Adjust(given_sequence, left_change, 0), 0, right_change)

\* the second equation, for the pairs in which no truncation reaches beyond
\* the original elements
RightThenLeftWithoutOverTruncation ==
    ( /\ apc = "done"
      /\ Max2(0 - left_change, 0) + Max2(0 - right_change, 0) <= Len(given_sequence) )
    => data_sequence = Adjust(Adjust(given_sequence, 0, right_change), left_change, 0)

\* C27: for a pair (a, b) with a, b <= 0 the adjuster returns exactly the run
\* of original elements from index |a| up to, not including, index
\* len(s) - |b|, in their original order, and the empty sequence when
\* |a| + |b| >= len(s).
C27_TruncationKeepsTheMiddleRun ==
    ( apc = "done" /\ left_change <= 0 /\ right_change <= 0 )
    => data_sequence
         = IF Abs(left_change) + Abs(right_change) >= Len(given_sequence)
           THEN << >>
           ELSE [ i \in 1 .. Len(given_sequence) - Abs(left_change) - Abs(right_change)
                    |-> given_sequence[Abs(left_change) + i] ]

\* both ends truncated and an element of the middle is left
C27_Witness ==
    /\ apc = "done"
    /\ left_change < 0
    /\ right_change < 0
    /\ Len(data_sequence) = 1
    /\ Len(given_sequence) = 3
    /\ given_sequence[1] # given_sequence[2]

\* a pair that truncates more than there is
C27_OverTruncated ==
    /\ apc = "done"
    /\ left_change < 0
    /\ right_change < 0
    /\ Abs(left_change) + Abs(right_change) > Len(given_sequence)
    /\ Len(given_sequence) > 0
    /\ data_sequence = << >>

-----------------------------------------------------------------------------
(* The generator drained to its end *)

\* the lengths the generator has proposed so far
YieldedLengths == { length + yielded[i] : i \in 1 .. Len(yielded) }

\* every length that satisfies the constraints; with maximum_length given
\* none of them lies beyond it
ValidLengths == { n \in 0 .. MaxCandidate : SatisfiesConstraints(n) }

\* C28: every delta yielded by iterate_over_lengths_satisfying_constraints
\* gives a length length+delta that is >= 0, within [minimum_length,
\* maximum_length] and a multiple of the least common multiple of the
\* divisors; no delta is yielded twice; and when maximum_length is given the
\* generator, once exhausted, has yielded exactly the valid lengths minus
\* length.
C28_YieldsExactlyTheValidLengths ==
    /\ \A i \in 1 .. Len(yielded) :
         /\ SatisfiesConstraints(length + yielded[i])
         /\ DivisorsAreNatural
              => (length + yielded[i])
                   % find_least_common_multiplier(length_is_multiple_of)[1] = 0
    /\ \A i, j \in 1 .. Len(yielded) : i # j => yielded[i] # yielded[j]
    /\ ( maximum_length # None /\ gpc = "exhausted" ) => YieldedLengths = ValidLengths

\* a bounded generator that ended after proposing lengths on both sides of
\* `length` and skipping some that the divisors exclude
C28_Witness ==
    /\ maximum_length # None
    /\ gpc = "exhausted"
    /\ differential > 1
    /\ \E i, j \in 1 .. Len(yielded) : yielded[i] < 0 /\ yielded[j] > 0

-----------------------------------------------------------------------------
(* The resolver called with both sides set or both sides unset *)

BothSidesUnset == truncation_side = NoSide /\ padding_side = NoSide

InitPaired ==
    /\ Init
    /\ BothSidesSet \/ BothSidesUnset

\* the resolver's for loop and the generator it drives run on their own: a
\* step that can be taken is taken
SpecPairedFair == InitPaired /\ [][Next]_vars /\ WF_vars(Next)

\* C29: with both truncation_side and padding_side set,
\* determine_length_normalization_strategy always terminates and returns None
\* if and only if no length in [minimum_length, maximum_length] is a multiple
\* of every divisor; with both unset it always terminates and returns (0, 0)
\* if length is valid and None otherwise.
C29_PairedSidesTerminate ==
    /\ <>(pc = "done")
    /\ []( ( pc = "done" /\ DivisorsAreNatural )
             => IF BothSidesSet
                THEN /\ result.kind \in { "pair", "None" }
                     /\ result = NoneResult <=> Unsatisfiable
                ELSE result = IF SatisfiesConstraints(length)
                              THEN PairResult(0, 0)
                              ELSE NoneResult )

\* a call with both sides set that found nothing in a bounded, unsatisfiable
\* range after the generator had looked in both directions
C29_Witness ==
    /\ pc = "done"
    /\ BothSidesSet
    /\ DivisorsAreNatural
    /\ Unsatisfiable
    /\ result = NoneResult
    /\ minimum_length # None
    /\ maximum_length # None
    /\ minimum_length[1] <= maximum_length[1]

\* a call with both sides unset that answered None although another length
\* is valid
C29_UnsetWitness ==
    /\ pc = "done"
    /\ BothSidesUnset
    /\ DivisorsAreNatural
    /\ ~Unsatisfiable
    /\ result = NoneResult

-----------------------------------------------------------------------------
(* amend_date, amend_date_and_time, amend_time, amend_temporal_offset      *)
(* (standard/temporals.py), all four through _amend_temporal_value.        *)
(* A temporal value is the record of its type and its place on the time    *)
(* line (number); minimum_value and maximum_value are values of the type   *)
(* the function asks for, given by their place on the same line.           *)

TemporalFunctions ==
    { "amend_date", "amend_date_and_time", "amend_time", "amend_temporal_offset" }

\* temporals.py 322-331, 414-423, 504-513, 599-608: temporal_value_type
TemporalType(function) ==
    IF function = "amend_date" THEN "date"
    ELSE IF function = "amend_date_and_time" THEN "datetime"
    ELSE IF function = "amend_time" THEN "time"
    ELSE "timedelta"

\* temporals.py 200-206: temporal_value_type(**temporal_value) for a dict of
\* its keyword arguments, vars() of anything else in the model raises
TemporalCast(type, v) ==
    IF v.type = "dict" THEN Some(Value(type, << >>, v.number)) ELSE None

\* temporals.py 132-177
TemporalValidate ==
    /\ UNCHANGED << strategy_frame, adjuster_frame, multiplier_frame,
                    amend_arguments, environment >>
    /\ ampc = "call"
    /\ amend_function \in TemporalFunctions
    /\ IF \/ type_mismatch_action \notin TypeMismatchActions
          \/ /\ value_on_cast_error # None
             /\ ~IsInstance(value_on_cast_error[1], TemporalType(amend_function))
          \/ value_violation_action \notin ValueViolationActions
       THEN Raise("ValueError")
       ELSE ampc' = "type_check" /\ UNCHANGED << amended, warnings, exception >>

\* temporals.py 186-199; a value of the type skips the cast
TemporalTypeCheck ==
    /\ UNCHANGED << strategy_frame, adjuster_frame, multiplier_frame,
                    amend_arguments, environment >>
    /\ ampc = "type_check"
    /\ amend_function \in TemporalFunctions
    /\ IF IsInstance(entity, TemporalType(amend_function))
       THEN /\ ampc' = "temporal_minimum"
            /\ UNCHANGED << amended, warnings, exception >>
       ELSE IF MismatchIsFatal(type_mismatch_action)
       THEN Raise("TypeError")
       ELSE /\ ampc' = "cast"
            /\ IF type_mismatch_action = "warning"
               THEN Warn("type") ELSE UNCHANGED warnings
            /\ UNCHANGED << amended, exception >>

\* temporals.py 200-213: the fallback is taken as it is
TemporalCastStep ==
    /\ UNCHANGED << strategy_frame, adjuster_frame, multiplier_frame,
                    amend_arguments, environment >>
    /\ ampc = "cast"
    /\ amend_function \in TemporalFunctions
    /\ IF TemporalCast(TemporalType(amend_function), entity) # None
       THEN /\ amended' = TemporalCast(TemporalType(amend_function), entity)[1]
            /\ ampc' = "temporal_minimum"
            /\ UNCHANGED << warnings, exception >>
       ELSE IF value_on_cast_error = None
       THEN Raise("TypeError")
       ELSE /\ amended' = value_on_cast_error[1]
            /\ ampc' = "temporal_minimum"
            /\ UNCHANGED << warnings, exception >>

\* an upper bound that is never looked at
LaterThanMaximum_Never(n, maximum) == FALSE

\* temporals.py 215
EarlierThanMinimum(n, minimum) == minimum # None /\ n < minimum[1]

\* temporals.py 228
LaterThanMaximum(n, maximum) == maximum # None /\ n > maximum[1]

\* temporals.py 215-226
TemporalMinimum ==
    /\ UNCHANGED << strategy_frame, adjuster_frame, multiplier_frame,
                    amend_arguments, environment >>
    /\ ampc = "temporal_minimum"
    /\ IF ~EarlierThanMinimum(amended.number, minimum_value)
       THEN ampc' = "temporal_maximum" /\ UNCHANGED << amended, warnings, exception >>
       ELSE IF value_violation_action = "error"
       THEN Raise("ValueError")
       ELSE /\ ampc' = "temporal_maximum"
            /\ IF value_violation_action = "warning"
               THEN Warn("value") ELSE UNCHANGED warnings
            /\ amended' = IF value_violation_action = "clamp"
                          THEN [ amended EXCEPT !.number = minimum_value[1] ]
                          ELSE amended
            /\ UNCHANGED exception

\* temporals.py 228-241
TemporalMaximum ==
    /\ UNCHANGED << strategy_frame, adjuster_frame, multiplier_frame,
                    amend_arguments, environment >>
    /\ ampc = "temporal_maximum"
    /\ IF ~LaterThanMaximum(amended.number, maximum_value)
       THEN ampc' = "returned" /\ UNCHANGED << amended, warnings, exception >>
       ELSE IF value_violation_action = "error"
       THEN Raise("ValueError")
       ELSE /\ ampc' = "returned"
            /\ IF value_violation_action = "warning"
               THEN Warn("value") ELSE UNCHANGED warnings
            /\ amended' = IF value_violation_action = "clamp"
                          THEN [ amended EXCEPT !.number = maximum_value[1] ]
                          ELSE amended
            /\ UNCHANGED exception

NextTemporal ==
    \/ TemporalValidate
    \/ TemporalTypeCheck
    \/ TemporalCastStep
    \/ TemporalMinimum
    \/ TemporalMaximum

-----------------------------------------------------------------------------
(* A value amended, and what was returned amended again with the same      *)
(* configuration                                                           *)

\* the caller passes the value the first call returned to a second call
AmendAgain ==
    /\ UNCHANGED << strategy_frame, adjuster_frame, multiplier_frame >>
    /\ ampc = "returned"
    /\ calls = 1
    /\ calls' = 2
    /\ entity' = amended
    /\ ampc' = "call"
    /\ warnings' = << >>
    /\ UNCHANGED << amend_function, type_mismatch_action, value_on_cast_error,
                    length_violation_action, minimum_value, maximum_value,
                    value_violation_action, not_existing_action,
                    category_mismatch_action, amended, exception, filesystem,
                    given_filesystem >>

TemporalInputs(function) ==
    { Value(type, << >>, n) :
        type \in { TemporalType(function), "dict" }, n \in IntegerValues }
    \cup { Value("str", << "a" >>, 0), NoValue }

InitClamp ==
    /\ amend_function \in { "amend_integer" } \cup TemporalFunctions
    /\ entity \in IF amend_function = "amend_integer"
                  THEN IntegerInputs ELSE TemporalInputs(amend_function)
    /\ type_mismatch_action = NoAction
    /\ value_on_cast_error
         \in { None,
               Some(Value(IF amend_function = "amend_integer" THEN "int"
                          ELSE TemporalType(amend_function), << >>, 0 - MaxValue)) }
    /\ length_violation_action = NoAction
    /\ minimum_value \in { None } \cup { Some(n) : n \in IntegerValues }
    /\ maximum_value \in { None } \cup { Some(n) : n \in IntegerValues }
    /\ value_violation_action \in ValueViolationActions
    /\ minimum_length = None
    /\ maximum_length = None
    /\ length_is_multiple_of = None
    /\ truncation_side = NoSide
    /\ padding_side = NoSide
    /\ padding_value = None
    /\ not_existing_action = NoAction
    /\ category_mismatch_action = NoAction
    /\ filesystem = { }
    /\ given_filesystem = { }
    /\ InitCallees
    /\ InitCall

NextClamp == NextInteger \/ NextTemporal \/ AmendAgain

SpecClamp == InitClamp /\ [][NextClamp]_vars

\* the bounds are in order, or one of them is unset
BoundsInOrder ==
    minimum_value = None \/ maximum_value = None \/ minimum_value[1] <= maximum_value[1]

\* the value the call compares with the bounds: what was passed, what it
\* casts to, or the fallback
ValueToClamp ==
    IF amend_function = "amend_integer"
    THEN IF IsInstance(entity, "int") THEN entity
         ELSE IF Cast("int", entity) # None THEN Cast("int", entity)[1]
         ELSE value_on_cast_error[1]
    ELSE IF IsInstance(entity, TemporalType(amend_function)) THEN entity
         ELSE IF TemporalCast(TemporalType(amend_function), entity) # None
         THEN TemporalCast(TemporalType(amend_function), entity)[1]
         ELSE value_on_cast_error[1]

\* C21: with value_violation_action 'clamp' and minimum_value <=
\* maximum_value (either may be unset), amend_integer and the temporal amend
\* functions return minimum_value for a value below it, maximum_value for a
\* value above it and the value itself otherwise; what is returned lies
\* within the bounds, and amended again with the same configuration it is
\* returned unchanged.
C21_ClampSnapsToNearestBound ==
    ( /\ value_violation_action = "clamp"
      /\ BoundsInOrder
      /\ ampc = "returned" )
    => /\ amended.type = ValueToClamp.type
       /\ amended.number
            = IF minimum_value # None /\ ValueToClamp.number < minimum_value[1]
              THEN minimum_value[1]
              ELSE IF maximum_value # None /\ ValueToClamp.number > maximum_value[1]
              THEN maximum_value[1]
              ELSE ValueToClamp.number
       /\ minimum_value # None => amended.number >= minimum_value[1]
       /\ maximum_value # None => amended.number <= maximum_value[1]
       /\ calls = 2 => amended = entity

\* a temporal value below the minimum was raised to it, and the second call
\* has returned
C21_Witness ==
    /\ amend_function \in TemporalFunctions
    /\ value_violation_action = "clamp"
    /\ BoundsInOrder
    /\ minimum_value # None
    /\ maximum_value # None
    /\ ampc = "returned"
    /\ calls = 2
    /\ amended.number = minimum_value[1]
    /\ minimum_value[1] < maximum_value[1]

\* an integer above the maximum was lowered to it
C21_IntegerWitness ==
    /\ amend_function = "amend_integer"
    /\ value_violation_action = "clamp"
    /\ BoundsInOrder
    /\ maximum_value # None
    /\ ampc = "returned"
    /\ calls = 1
    /\ entity.type = "int"
    /\ entity.number > maximum_value[1]
    /\ amended.number = maximum_value[1]

-----------------------------------------------------------------------------
(* amend_directory and amend_file (standard/paths.py).                     *)
(* A path is the sequence of its names below the root, the root being the  *)
(* empty sequence; the filesystem is the set of the entries that exist,    *)
(* each a path with its kind.  The root always exists and is a directory.  *)

PathNames == { "x", "y" }

\* two branches below the root, each a single chain of names below its top
Paths ==
    { q \in UNION { [ 1 .. n -> PathNames ] : n \in 1 .. MaxDepth } :
        \A i \in 2 .. Len(q) : q[i] = "x" }

Root == << >>

Entry(path, kind) == [ path |-> path, kind |-> kind ]

\* Path.parent; the root is its own parent
Parent(path) == IF path = Root THEN Root ELSE SubSeq(path, 1, Len(path) - 1)

\* the path itself and everything above it, the root left out
Lineage(path) == { SubSeq(path, 1, k) : k \in 1 .. Len(path) }

\* Path.is_dir(), Path.is_file(), Path.exists()
IsDir(fs, path) == path = Root \/ Entry(path, "dir") \in fs
IsFile(fs, path) == Entry(path, "file") \in fs
Exists(fs, path) == IsDir(fs, path) \/ IsFile(fs, path)

\* what a filesystem can be: one kind for a path, and every entry inside a
\* directory
WellFormed(fs) ==
    \A e \in fs : /\ ~(IsDir(fs, e.path) /\ IsFile(fs, e.path))
                  /\ IsDir(fs, Parent(e.path))

Filesystems ==
    { fs \in SUBSET { Entry(q, kind) : q \in Paths, kind \in { "dir", "file" } } :
        WellFormed(fs) }

\* Path.mkdir(parents=True, exist_ok=True) raises when a regular file is in
\* the way
MkdirRaises(fs, path) == \E q \in Lineage(path) : IsFile(fs, q)

\* ... and otherwise leaves the path and everything above it as directories
Mkdir(fs, path) ==
    fs \cup { Entry(q, "dir") : q \in { r \in Lineage(path) : ~Exists(fs, r) } }

\* open(file, mode="a") raises unless the file can be where it is asked for
OpenRaises(fs, path) == ~IsDir(fs, Parent(path)) \/ IsDir(fs, path)

Open(fs, path) == fs \cup { Entry(path, "file") }

DirectoryNotExistingActions == { NoAction, "error", "warning", "make" }
FileNotExistingActions == { NoAction, "error", "warning", "make", "make-parent" }
DirectoryCategoryMismatchActions == { NoAction, "error", "warning", "take-parent" }
FileCategoryMismatchActions == { NoAction, "error", "warning" }

\* Path(str(v)); None does not pass the assertion
PathCast(v) ==
    IF v.type \in { "Path", "str" } THEN Some(Value("Path", v.elements, 0)) ELSE None

\* paths.py 109-141
DirectoryValidate ==
    /\ UNCHANGED << strategy_frame, adjuster_frame, multiplier_frame,
                    amend_arguments, environment >>
    /\ ampc = "call"
    /\ amend_function = "amend_directory"
    /\ IF \/ type_mismatch_action \notin TypeMismatchActions
          \/ value_on_cast_error # None /\ ~IsInstance(value_on_cast_error[1], "Path")
          \/ not_existing_action \notin DirectoryNotExistingActions
          \/ category_mismatch_action \notin DirectoryCategoryMismatchActions
       THEN Raise("ValueError")
       ELSE ampc' = "type_check" /\ UNCHANGED << amended, warnings, exception >>

\* paths.py 150-163; a Path skips the cast
DirectoryTypeCheck ==
    /\ UNCHANGED << strategy_frame, adjuster_frame, multiplier_frame,
                    amend_arguments, environment >>
    /\ ampc = "type_check"
    /\ amend_function = "amend_directory"
    /\ IF IsInstance(entity, "Path")
       THEN /\ ampc' = "existence"
            /\ UNCHANGED << amended, warnings, exception >>
       ELSE IF MismatchIsFatal(type_mismatch_action)
       THEN Raise("TypeError")
       ELSE /\ ampc' = "cast"
            /\ IF type_mismatch_action = "warning"
               THEN Warn("type") ELSE UNCHANGED warnings
            /\ UNCHANGED << amended, exception >>

\* paths.py 164-172 and 355-363: the fallback is taken as it is
PathCastStep ==
    /\ UNCHANGED << strategy_frame, adjuster_frame, multiplier_frame,
                    amend_arguments, environment >>
    /\ ampc = "cast"
    /\ amend_function \in { "amend_directory", "amend_file" }
    /\ IF PathCast(entity) # None
       THEN /\ amended' = PathCast(entity)[1]
            /\ ampc' = "existence"
            /\ UNCHANGED << warnings, exception >>
       ELSE IF value_on_cast_error = None
       THEN Raise("TypeError")
       ELSE /\ amended' = value_on_cast_error[1]
            /\ ampc' = "existence"
            /\ UNCHANGED << warnings, exception >>

\* an action under which nothing is ever made
MakesDirectory_Never(action) == FALSE

\* a warning that makes the directory as well
MakesDirectory_OrWarns(action) == action \in { "make", "warning" }

\* paths.py 184
MakesDirectory(action) == action = "make"

\* paths.py 174-192
DirectoryExistence ==
    /\ UNCHANGED << strategy_frame, adjuster_frame, multiplier_frame,
                    amend_arguments, calls, given_filesystem >>
    /\ ampc = "existence"
    /\ amend_function = "amend_directory"
    /\ LET directory == amended.elements
       IN  IF not_existing_action = NoAction \/ Exists(filesystem, directory)
           THEN /\ ampc' = "category"
                /\ UNCHANGED << amended, warnings, exception, filesystem >>
           ELSE IF not_existing_action = "error"
           THEN Raise("OSError") /\ UNCHANGED filesystem
           ELSE IF MakesDirectory(not_existing_action)
           THEN IF MkdirRaises(filesystem, directory)
                THEN Raise("OSError") /\ UNCHANGED filesystem
                ELSE /\ filesystem' = Mkdir(filesystem, directory)
                     /\ ampc' = "category"
                     /\ UNCHANGED << amended, warnings, exception >>
           ELSE /\ ampc' = "category"
                /\ Warn("existence")
                /\ UNCHANGED << amended, exception, filesystem >>

\* paths.py 194-218
DirectoryCategory ==
    /\ UNCHANGED << strategy_frame, adjuster_frame, multiplier_frame,
                    amend_arguments, environment >>
    /\ ampc = "category"
    /\ amend_function = "amend_directory"
    /\ LET directory == amended.elements
       IN  IF \/ category_mismatch_action = NoAction
              \/ ~Exists(filesystem, directory)
              \/ IsDir(filesystem, directory)
           THEN ampc' = "returned" /\ UNCHANGED << amended, warnings, exception >>
           ELSE IF category_mismatch_action = "error"
           THEN Raise("NotADirectoryError")
           ELSE IF category_mismatch_action = "warning"
           THEN /\ ampc' = "returned"
                /\ Warn("category")
                /\ UNCHANGED << amended, exception >>
           ELSE IF IsDir(filesystem, Parent(directory))
           THEN /\ ampc' = "returned"
                /\ amended' = [ amended EXCEPT !.elements = Parent(directory) ]
                /\ UNCHANGED << warnings, exception >>
           ELSE Raise("OSError")

NextDirectory ==
    \/ DirectoryValidate
    \/ DirectoryTypeCheck
    \/ PathCastStep
    \/ DirectoryExistence
    \/ DirectoryCategory

\* paths.py 297-329: a fallback has to be a file or missing
FileValidate ==
    /\ UNCHANGED << strategy_frame, adjuster_frame, multiplier_frame,
                    amend_arguments, environment >>
    /\ ampc = "call"
    /\ amend_function = "amend_file"
    /\ IF \/ type_mismatch_action \notin TypeMismatchActions
          \/ /\ value_on_cast_error # None
             /\ ~( /\ IsInstance(value_on_cast_error[1], "Path")
                   /\ \/ IsFile(filesystem, value_on_cast_error[1].elements)
                      \/ ~Exists(filesystem, value_on_cast_error[1].elements) )
          \/ not_existing_action \notin FileNotExistingActions
          \/ category_mismatch_action \notin FileCategoryMismatchActions
       THEN Raise("ValueError")
       ELSE ampc' = "type_check" /\ UNCHANGED << amended, warnings, exception >>

\* paths.py 338-353: the cast follows whatever the type
FileTypeCheck ==
    /\ UNCHANGED << strategy_frame, adjuster_frame, multiplier_frame,
                    amend_arguments, environment >>
    /\ ampc = "type_check"
    /\ amend_function = "amend_file"
    /\ IF ~IsInstance(entity, "Path") /\ MismatchIsFatal(type_mismatch_action)
       THEN Raise("TypeError")
       ELSE /\ ampc' = "cast"
            /\ IF ~IsInstance(entity, "Path") /\ type_mismatch_action = "warning"
               THEN Warn("type") ELSE UNCHANGED warnings
            /\ UNCHANGED << amended, exception >>

\* paths.py 379-383: amend_directory(directory=file.parent,
\* not_existing_action="make") raises when the parent cannot be made
ParentRaises(fs, file) ==
    ~Exists(fs, Parent(file)) /\ MkdirRaises(fs, Parent(file))

\* ... and leaves a parent that exists as it is
ParentMade(fs, file) ==
    IF Exists(fs, Parent(file)) THEN fs ELSE Mkdir(fs, Parent(file))

\* paths.py 375-378
MakesParent(action) == action \in { "make", "make-parent" }

\* paths.py 385
MakesFile(action) == action = "make"

\* paths.py 365-394
FileExistence ==
    /\ UNCHANGED << strategy_frame, adjuster_frame, multiplier_frame,
                    amend_arguments, calls, given_filesystem >>
    /\ ampc = "existence"
    /\ amend_function = "amend_file"
    /\ LET file == amended.elements
       IN  IF not_existing_action = NoAction \/ Exists(filesystem, file)
           THEN /\ ampc' = "category"
                /\ UNCHANGED << amended, warnings, exception, filesystem >>
           ELSE IF not_existing_action = "error"
           THEN Raise("OSError") /\ UNCHANGED filesystem
           ELSE IF ~MakesParent(not_existing_action)
           THEN /\ ampc' = "category"
                /\ Warn("existence")
                /\ UNCHANGED << amended, exception, filesystem >>
           ELSE IF ParentRaises(filesystem, file)
           THEN Raise("OSError") /\ UNCHANGED filesystem
           ELSE IF ~MakesFile(not_existing_action)
           THEN /\ filesystem' = ParentMade(filesystem, file)
                /\ ampc' = "category"
                /\ UNCHANGED << amended, warnings, exception >>
           ELSE IF OpenRaises(ParentMade(filesystem, file), file)
           THEN /\ Raise("OSError")
                /\ filesystem' = ParentMade(filesystem, file)
           ELSE /\ filesystem' = Open(ParentMade(filesystem, file), file)
                /\ ampc' = "category"
                /\ UNCHANGED << amended, warnings, exception >>

\* paths.py 396-407
FileCategory ==
    /\ UNCHANGED << strategy_frame, adjuster_frame, multiplier_frame,
                    amend_arguments, environment >>
    /\ ampc = "category"
    /\ amend_function = "amend_file"
    /\ LET file == amended.elements
       IN  IF \/ category_mismatch_action = NoAction
              \/ ~Exists(filesystem, file)
              \/ IsFile(filesystem, file)
           THEN ampc' = "returned" /\ UNCHANGED << amended, warnings, exception >>
           ELSE IF category_mismatch_action = "error"
           THEN Raise("ValueError")
           ELSE /\ ampc' = "returned"
                /\ Warn("category")
                /\ UNCHANGED << amended, exception >>

NextFile ==
    \/ FileValidate
    \/ FileTypeCheck
    \/ PathCastStep
    \/ FileExistence
    \/ FileCategory

\* the caller makes the same call once more
SameCallAgain ==
    /\ UNCHANGED << strategy_frame, adjuster_frame, multiplier_frame,
                    amend_arguments, exception, filesystem >>
    /\ ampc = "returned"
    /\ calls = 1
    /\ calls' = 2
    /\ given_filesystem' = filesystem
    /\ ampc' = "call"
    /\ amended' = entity
    /\ warnings' = << >>

PathInputs ==
    { Value("Path", q, 0) : q \in Paths }
    \cup { Value("str", << "x", "x" >>, 0), NoValue }

InitPaths ==
    /\ amend_function \in { "amend_directory", "amend_file" }
    /\ entity \in PathInputs
    /\ type_mismatch_action \in TypeMismatchActions
    /\ value_on_cast_error \in { None, Some(Value("Path", << "y" >>, 0)) }
    /\ length_violation_action = NoAction
    /\ minimum_value = None
    /\ maximum_value = None
    /\ value_violation_action = NoAction
    /\ not_existing_action \in FileNotExistingActions \cup { InvalidAction }
    /\ category_mismatch_action \in DirectoryCategoryMismatchActions
    /\ filesystem \in Filesystems
    /\ given_filesystem = filesystem
    /\ minimum_length = None
    /\ maximum_length = None
    /\ length_is_multiple_of = None
    /\ truncation_side = NoSide
    /\ padding_side = NoSide
    /\ padding_value = None
    /\ InitCallees
    /\ InitCall

NextPaths == NextDirectory \/ NextFile \/ SameCallAgain

SpecPaths == InitPaths /\ [][NextPaths]_vars

-----------------------------------------------------------------------------
(* What the claims about the paths speak of *)

\* a path is passed, as a Path or as something that casts to one, and the
\* type check lets it through
PathIsGiven == PathCast(entity) # None /\ type_mismatch_action # "error"

\* the path the call works on
PathArgument == PathCast(entity)[1].elements

\* nothing but directories on the way down to the path, where anything exists
AncestorsAreDirectories(fs, path) == \A q \in Lineage(path) : ~IsFile(fs, q)

DirectoryIsMade ==
    /\ amend_function = "amend_directory"
    /\ not_existing_action = "make"
    /\ PathIsGiven

\* C22: amend_directory with not_existing_action 'make' on a missing path
\* whose existing ancestors are all directories creates the directory and
\* every missing parent, nothing else, and returns the path; a second
\* identical call does not raise, returns the same path and leaves the
\* filesystem as it found it.
C22_MakeIsIdempotent ==
    /\ ( /\ DirectoryIsMade
         /\ calls = 1
         /\ ~Exists(given_filesystem, PathArgument)
         /\ AncestorsAreDirectories(given_filesystem, PathArgument) )
       => /\ ampc # "raised"
          /\ ampc \in { "category", "returned" }
               => filesystem
                    = given_filesystem
                        \cup { Entry(q, "dir") : q \in Lineage(PathArgument) }
          /\ ampc = "returned" => amended = Value("Path", PathArgument, 0)
    /\ ( /\ DirectoryIsMade
         /\ calls = 2
         /\ IsDir(given_filesystem, PathArgument) )
       => /\ ampc # "raised"
          /\ filesystem = given_filesystem
          /\ ampc = "returned" => amended = Value("Path", PathArgument, 0)

\* a directory was made together with its missing parent and returned
C22_Witness ==
    /\ DirectoryIsMade
    /\ calls = 1
    /\ ampc = "returned"
    /\ Len(PathArgument) = 2
    /\ ~Exists(given_filesystem, Parent(PathArgument))
    /\ IsDir(filesystem, PathArgument)
    /\ IsDir(filesystem, Parent(PathArgument))

\* the second call has returned
C22_SecondCallReturned ==
    /\ DirectoryIsMade
    /\ calls = 2
    /\ ampc = "returned"
    /\ Len(PathArgument) = 2

FileIsMade ==
    /\ amend_function = "amend_file"
    /\ not_existing_action \in { "make", "make-parent" }
    /\ category_mismatch_action \in FileCategoryMismatchActions
    /\ value_on_cast_error = None
    /\ PathIsGiven
    /\ calls = 1
    /\ ~Exists(given_filesystem, PathArgument)

\* what 'make' and 'make-parent' are to leave behind
FileIsLeftAsAsked ==
    /\ ampc # "raised"
    /\ ampc \in { "category", "returned" }
         => /\ \A q \in Lineage(Parent(PathArgument)) : IsDir(filesystem, q)
            /\ not_existing_action = "make" => IsFile(filesystem, PathArgument)
            /\ not_existing_action = "make-parent" => ~Exists(filesystem, PathArgument)
    /\ ampc = "returned" => amended = Value("Path", PathArgument, 0)

\* C23: for a missing file, amend_file with 'make' leaves the parent
\* directory, with all its missing parents, and the file itself existing,
\* 'make-parent' leaves the parent directory existing and the file still
\* missing, and both return the file path.
C23_MakeAndMakeParent == FileIsMade => FileIsLeftAsAsked

\* the same with nothing but directories above the file
MakeAndMakeParentBelowDirectories ==
    ( FileIsMade /\ AncestorsAreDirectories(given_filesystem, PathArgument) )
    => FileIsLeftAsAsked

\* under 'make' a missing file and its missing parent were made
FileAndParentMade ==
    /\ FileIsMade
    /\ not_existing_action = "make"
    /\ ampc = "returned"
    /\ Len(PathArgument) = 2
    /\ ~Exists(given_filesystem, Parent(PathArgument))
    /\ IsFile(filesystem, PathArgument)

\* C30: amend_directory and amend_file change the filesystem only when
\* not_existing_action is 'make' or 'make-parent' and the path is missing:
\* with the action unset, 'error' or 'warning', or with a path that exists,
\* the files and directories are the same after the call as before it,
\* whether it returns or raises.
C30_OnlyMakeChangesTheFilesystem ==
    filesystem # given_filesystem
    => /\ not_existing_action \in { "make", "make-parent" }
       /\ PathCast(entity) # None \/ value_on_cast_error # None
       /\ ~Exists(given_filesystem,
                  IF PathCast(entity) # None THEN PathArgument
                  ELSE value_on_cast_error[1].elements)

\* a call that found its path missing and was not asked to make it has ended
C30_Witness ==
    /\ ampc \in { "returned", "raised" }
    /\ exception \in { NoException, "OSError" }
    /\ not_existing_action \in { "error", "warning" }
    /\ PathIsGiven
    /\ ~Exists(given_filesystem, PathArgument)
    /\ filesystem = given_filesystem
    /\ given_filesystem # { }

\* a call that made something
SomethingWasMade ==
    /\ ampc = "returned"
    /\ filesystem # given_filesystem
    /\ amend_function = "amend_file"
    /\ not_existing_action = "make-parent"

====
